---- MODULE Spec2Model ----
(***************************************************************************)
(* A model of fix_chat_history.py: the reconciliation of a workspace's     *)
(* chat session index (chat.ChatSessionStore.index) and agent panel cache  *)
(* (agentSessions.model.cache / agentSessions.state.cache) in state.vscdb  *)
(* against the record files of its chatSessions directory.                 *)
(*                                                                         *)
(* Four specifications share the module:                                   *)
(*   SpecCodec    _session_id_to_resource and the scanner's decoder        *)
(*   SpecExtract  parse_jsonl_session, one line of the log per step        *)
(*   Spec         WorkspaceInfo scan + repair_workspace on one workspace   *)
(*   SpecMerge    _find_duplicate_workspaces + _merge_one_workspace        *)
(***************************************************************************)
EXTENDS Integers, Sequences, FiniteSets, TLC

\* ------------------------------------------------------------------------
\* Generic helpers
\* ------------------------------------------------------------------------

Range(s) == {s[i] : i \in 1..Len(s)}

RECURSIVE SeqsUpTo(_, _)
\* all sequences over S of length 0..n
SeqsUpTo(S, n) ==
    IF n = 0 THEN {<<>>}
    ELSE LET shorter == SeqsUpTo(S, n - 1)
         IN  shorter \cup {Append(s, x) : s \in {t \in shorter : Len(t) = n - 1}, x \in S}

\* ------------------------------------------------------------------------
\* Session ids are byte strings; Python's sorted() orders str by code point
\* ------------------------------------------------------------------------

RECURSIVE LexLess(_, _)
LexLess(a, b) ==
    IF b = <<>> THEN FALSE
    ELSE IF a = <<>> THEN TRUE
    ELSE IF Head(a) # Head(b) THEN Head(a) < Head(b)
    ELSE LexLess(Tail(a), Tail(b))

RECURSIVE sorted(_)
\* sorted(set of ids): ascending sequence
sorted(S) ==
    IF S = {} THEN <<>>
    ELSE LET m == CHOOSE x \in S : \A y \in S \ {x} : LexLess(x, y)
         IN  <<m>> \o sorted(S \ {m})

\* ------------------------------------------------------------------------
\* base64: symbols 0..63 are the positions of the standard alphabet
\* (62 is '+', 63 is '/'); the URL-safe alphabet writes 62 as '-' and 63 as
\* '_', which are no symbols of the standard alphabet.
\* ------------------------------------------------------------------------

B64Plus == 62
B64Slash == 63
B64Dash == 64
B64Under == 65
B64Pad == 66
\* the outcome of a decoding that raised: no byte string
Err == <<-1>>

RECURSIVE b64encode(_)
\* base64.b64encode: standard alphabet, padded to a multiple of 4
b64encode(bytes) ==
    IF Len(bytes) = 0 THEN <<>>
    ELSE IF Len(bytes) = 1 THEN
        << bytes[1] \div 4, (bytes[1] % 4) * 16, B64Pad, B64Pad >>
    ELSE IF Len(bytes) = 2 THEN
        << bytes[1] \div 4,
           (bytes[1] % 4) * 16 + bytes[2] \div 16,
           (bytes[2] % 16) * 4,
           B64Pad >>
    ELSE
        << bytes[1] \div 4,
           (bytes[1] % 4) * 16 + bytes[2] \div 16,
           (bytes[2] % 16) * 4 + bytes[3] \div 64,
           bytes[3] % 64 >> \o b64encode(SubSeq(bytes, 4, Len(bytes)))

\* base64.urlsafe_b64encode: b64encode, then '+' -> '-' and '/' -> '_'
urlsafe_b64encode(bytes) ==
    LET std == b64encode(bytes)
    IN  [i \in 1..Len(std) |->
            IF std[i] = B64Plus THEN B64Dash
            ELSE IF std[i] = B64Slash THEN B64Under
            ELSE std[i]]

RECURSIVE rstrip_pad(_)
\* str.rstrip("=")
rstrip_pad(s) ==
    IF s # <<>> /\ s[Len(s)] = B64Pad THEN rstrip_pad(SubSeq(s, 1, Len(s) - 1)) ELSE s

RECURSIVE a2b_base64(_, _, _, _, _)
\* binascii.a2b_base64 in its default (non-strict) mode, which
\* base64.b64decode(s) uses: characters outside the standard alphabet are
\* skipped, a completed pad sequence ends the input, and data left over in
\* an unfinished quad is an error ("Incorrect padding").
a2b_base64(s, quad_pos, leftchar, pads, out) ==
    IF s = <<>> THEN (IF quad_pos # 0 THEN Err ELSE out)
    ELSE LET c == Head(s) IN
         IF c = B64Pad THEN
             IF quad_pos >= 2 /\ quad_pos + pads + 1 >= 4 THEN out
             ELSE a2b_base64(Tail(s), quad_pos, leftchar,
                             IF quad_pos >= 2 THEN pads + 1 ELSE pads, out)
         ELSE IF c > B64Slash THEN a2b_base64(Tail(s), quad_pos, leftchar, pads, out)
         ELSE IF quad_pos = 0 THEN a2b_base64(Tail(s), 1, c, 0, out)
         ELSE IF quad_pos = 1 THEN
             a2b_base64(Tail(s), 2, c % 16, 0, Append(out, leftchar * 4 + c \div 16))
         ELSE IF quad_pos = 2 THEN
             a2b_base64(Tail(s), 3, c % 4, 0, Append(out, leftchar * 16 + c \div 4))
         ELSE a2b_base64(Tail(s), 0, 0, 0, Append(out, leftchar * 64 + c))

b64decode(s) == a2b_base64(s, 0, 0, 0, <<>>)

\* bytes.decode(): ids are ASCII here; a byte above 127 either is invalid
\* UTF-8 (an exception) or starts a non-ASCII character, which no ASCII id
\* equals, so both are Err.
AsciiMax == 127
utf8_decode(bytes) ==
    IF bytes = Err THEN Err
    ELSE IF \E i \in 1..Len(bytes) : bytes[i] > AsciiMax THEN Err
    ELSE bytes

\* A resource is the URI of a cache entry: its scheme and authority
\* ("local" for vscode-chat-session://local/, "chat" for any other
\* vscode-chat-session:// URI, "foreign" for other producers) and the last
\* path segment.
Resource(kind, seg) == [kind |-> kind, seg |-> seg]

\* an alternative encoder that keeps the standard alphabet
session_id_to_resource_std(session_id) ==
    Resource("local", rstrip_pad(b64encode(session_id)))

\* an alternative encoder that appends one character too many
session_id_to_resource_extra(session_id) ==
    Resource("local", Append(rstrip_pad(urlsafe_b64encode(session_id)), 0))

_session_id_to_resource(session_id) ==
    Resource("local", rstrip_pad(urlsafe_b64encode(session_id)))

\* WorkspaceInfo.__init__, the decoding of one cache item's resource:
\* the decoded session id, or Err when the item contributes none
DecodeResource(resource) ==
    IF resource.kind = "local" THEN utf8_decode(b64decode(resource.seg)) ELSE Err

\* ------------------------------------------------------------------------
\* Text: a Python str is a sequence of character codes
\* ------------------------------------------------------------------------

Space == 32
Dot == 46
\* None where the code holds an optional str
None == <<-2>>
\* "Untitled Session"
UntitledSession == <<85, 110, 116, 105, 116, 108, 101, 100, 32, 83, 101, 115, 115, 105, 111, 110>>

\* str.isspace(): at least one character and all of them whitespace
isspace(s) == s # <<>> /\ \A i \in 1..Len(s) : s[i] = Space

RECURSIVE lstrip(_)
lstrip(s) == IF s # <<>> /\ Head(s) = Space THEN lstrip(Tail(s)) ELSE s

RECURSIVE rstrip(_)
rstrip(s) == IF s # <<>> /\ s[Len(s)] = Space THEN rstrip(SubSeq(s, 1, Len(s) - 1)) ELSE s

\* str.strip()
strip(s) == rstrip(lstrip(s))

\* Python truthiness of an optional str: neither None nor ""
Truthy(s) == s # None /\ s # <<>>

TitleMax == 100
TitleKeep == 97
\* a mutant: the title is cut but not marked
TruncateNoEllipsis(title) ==
    IF Len(title) > TitleMax THEN SubSeq(title, 1, TitleMax) ELSE title

\* title[:97] + "..." when len(title) > 100
Truncate(title) ==
    IF Len(title) > TitleMax THEN SubSeq(title, 1, TitleKeep) \o <<Dot, Dot, Dot>> ELSE title

\* ------------------------------------------------------------------------
\* Session records
\*
\* A request of a record is [text, timestamp]: text is the "text" of the
\* first text-bearing part of message.parts, or None when the request has no
\* message.parts with a text; timestamp is its "timestamp", 0 when absent
\* (the default of every .get("timestamp", 0)).
\*
\* A line of a .jsonl log, after line.strip():
\*   [type |-> "blank"]                    an empty line
\*   [type |-> "garbage"]                  not JSON
\*   [type |-> "nonobject"]                JSON, but no object ([], 3, "x")
\*   [type |-> "kind0", v |-> snapshot]    {"kind":0,"v":{...}}; v is
\*        [object |-> TRUE, creationDate, initialLocation, requests], or
\*        NotObject when "v" is not a JSON object
\*   [type |-> "kind1", k, value]          {"kind":1,"k":[k],"v":value};
\*        value is a str, or NotStr for any other JSON value
\*   [type |-> "kind2", k, v, huge]        a line starting with {"kind":2;
\*        v the appended items, huge iff len(line) >= 1_000_000
\*   [type |-> "kind2spaced", k, v]        a kind-2 record not written
\*        compactly ({"kind": 2, ...)
\*   [type |-> "kind2broken", items]       a line starting with {"kind":2
\*        that is not JSON (cut off); the items whose text is there
\* ------------------------------------------------------------------------

NotObject == [object |-> FALSE]
NotStr == <<-3>>
TextCap == 200

Request(text, timestamp) == [text |-> text, timestamp |-> timestamp]

\* the state of parse_jsonl_session between two lines; failed is set when
\* an exception left the loop (the function returns None)
ExtractStart ==
    [ last_message_date |-> 0, creation_date |-> 0, initial_location |-> "panel",
      is_empty |-> TRUE, first_request_text |-> None, custom_title |-> None,
      failed |-> FALSE ]

Max(a, b) == IF a > b THEN a ELSE b

RECURSIVE MaxTimestamp(_, _)
\* for m in timestamp_re.finditer(line): keep the largest
MaxTimestamp(items, acc) ==
    IF items = <<>> THEN acc
    ELSE MaxTimestamp(Tail(items), Max(acc, Head(items).timestamp))

RECURSIVE FirstPartsText(_)
\* for req in v: the stripped text of the first request that has message
\* parts with a text (the loop breaks there); None when there is none
FirstPartsText(items) ==
    IF items = <<>> THEN None
    ELSE IF Head(items).text # None THEN strip(Head(items).text)
    ELSE FirstPartsText(Tail(items))

RECURSIVE FirstTextByPattern(_)
\* re.search(r'"text"\s*:\s*"((?:[^"\\]|\\.){1,200})', line): the first
\* "text" value of at least one character, cut at 200, not stripped
FirstTextByPattern(items) ==
    IF items = <<>> THEN None
    ELSE IF Head(items).text # None /\ Head(items).text # <<>>
         THEN SubSeq(Head(items).text, 1,
                     IF Len(Head(items).text) > TextCap THEN TextCap ELSE Len(Head(items).text))
    ELSE FirstTextByPattern(Tail(items))

\* '"message"' in line and '"parts"' in line
HasMessageParts(items) == \E i \in 1..Len(items) : items[i].text # None

\* lines 187-222: a line that starts with {"kind":2
ExtractKind2(st, line) ==
    LET ts == MaxTimestamp(line.v, st.last_message_date)
        text ==
            IF ~Truthy(st.first_request_text) /\ HasMessageParts(line.v) THEN
                IF ~line.huge THEN
                    IF line.k = "requests" /\ FirstPartsText(line.v) # None
                    THEN FirstPartsText(line.v)
                    ELSE st.first_request_text
                ELSE IF FirstTextByPattern(line.v) # None
                     THEN FirstTextByPattern(line.v)
                     ELSE st.first_request_text
            ELSE st.first_request_text
    IN  [st EXCEPT !.is_empty = FALSE, !.last_message_date = ts, !.first_request_text = text]

\* lines 187-216 for a line under 1 MB that json.loads rejects: the session
\* is not empty, the timestamps are taken, the text is not
ExtractKind2Broken(st, line) ==
    [st EXCEPT !.is_empty = FALSE,
               !.last_message_date = MaxTimestamp(line.items, st.last_message_date)]

\* lines 232-255: kind == 0
ExtractKind0(st, line) ==
    IF ~line.v.object THEN [st EXCEPT !.failed = TRUE]
    ELSE LET reqs == line.v.requests
             st1 == [st EXCEPT !.creation_date = line.v.creationDate,
                               !.initial_location = line.v.initialLocation]
         IN  IF reqs = <<>> THEN st1
             ELSE [st1 EXCEPT
                     !.is_empty = FALSE,
                     !.first_request_text =
                         IF reqs[1].text # None /\ ~Truthy(st.first_request_text)
                         THEN strip(reqs[1].text) ELSE st.first_request_text,
                     !.last_message_date =
                         Max(st.last_message_date, reqs[Len(reqs)].timestamp)]

\* a mutant: the first customTitle wins instead of the last
ExtractKind1First(st, line) ==
    IF line.k = "customTitle" /\ line.value # NotStr /\ line.value # <<>> /\ st.custom_title = None
    THEN [st EXCEPT !.custom_title = line.value]
    ELSE st

\* lines 257-262: kind == 1
ExtractKind1(st, line) ==
    IF line.k = "customTitle" /\ line.value # NotStr /\ line.value # <<>>
    THEN [st EXCEPT !.custom_title = line.value]
    ELSE st

\* lines 180-262: the body of the loop, for one line
ExtractLine(st, line) ==
    IF st.failed THEN st
    ELSE IF line.type = "blank" THEN st
    ELSE IF line.type = "kind2" THEN ExtractKind2(st, line)
    ELSE IF line.type = "kind2broken" THEN ExtractKind2Broken(st, line)
    ELSE IF line.type = "garbage" THEN st
    ELSE IF line.type = "nonobject" THEN [st EXCEPT !.failed = TRUE]
    ELSE IF line.type = "kind0" THEN ExtractKind0(st, line)
    ELSE IF line.type = "kind1" THEN ExtractKind1(st, line)
    ELSE st

\* a mutant: the derived text takes precedence over customTitle
ResolveTitleDerivedFirst(st) ==
    LET title == IF Truthy(st.first_request_text) THEN Truncate(st.first_request_text)
                 ELSE IF Truthy(st.custom_title) THEN st.custom_title
                 ELSE UntitledSession
    IN  IF title = <<>> \/ isspace(title) THEN UntitledSession ELSE title

\* lines 264-273: the title
ResolveTitle(st) ==
    LET title == IF Truthy(st.custom_title) THEN st.custom_title
                 ELSE IF Truthy(st.first_request_text) THEN Truncate(st.first_request_text)
                 ELSE UntitledSession
    IN  IF title = <<>> \/ isspace(title) THEN UntitledSession ELSE title

\* the result of a failed parse (the function returns None)
Unparsable == [ok |-> FALSE]

\* lines 264-286: the summary returned after the loop
ExtractFinish(st) ==
    IF st.failed THEN Unparsable
    ELSE [ ok |-> TRUE,
           title |-> ResolveTitle(st),
           lastMessageDate |->
               IF st.last_message_date = 0 /\ st.creation_date > 0
               THEN st.creation_date ELSE st.last_message_date,
           initialLocation |-> st.initial_location,
           isEmpty |-> st.is_empty ]

RECURSIVE ExtractFold(_, _)
ExtractFold(st, log) ==
    IF log = <<>> THEN st ELSE ExtractFold(ExtractLine(st, Head(log)), Tail(log))

\* parse_jsonl_session on a readable file with these lines
parse_jsonl_session(log) == ExtractFinish(ExtractFold(ExtractStart, log))

\* ------------------------------------------------------------------------
\* Record files, index entries and the store
\*
\* disk[w][sid] is the pair of record files chatSessions/<sid>.json and
\* chatSessions/<sid>.jsonl of workspace w:
\*   json  |-> [exists, valid, requests, initialLocation]  (valid: the file
\*             is a JSON object; requests: its "requests")
\*   jsonl |-> [exists, lines]
\* db[w] is state.vscdb: whether the file exists, its modification time and
\* the values of the three keys, each [row, ...] with row "none" (no such
\* key), "bad" (a value that is not JSON) or "ok".
\* The index keeps its entries in the order of the JSON object (a Python
\* dict keeps insertion order), so entries is a sequence.
\* ------------------------------------------------------------------------

NoJson == [exists |-> FALSE, valid |-> FALSE, requests |-> <<>>, initialLocation |-> "panel"]
NoJsonl == [exists |-> FALSE, lines |-> <<>>]
JsonFile(requests) ==
    [exists |-> TRUE, valid |-> TRUE, requests |-> requests, initialLocation |-> "panel"]
BadJsonFile == [exists |-> TRUE, valid |-> FALSE, requests |-> <<>>, initialLocation |-> "panel"]
JsonlFile(lines) == [exists |-> TRUE, lines |-> lines]
NoRecord == [json |-> NoJson, jsonl |-> NoJsonl]

\* lines 658-685 (and 1328-1349 in the merge): the legacy .json format
parse_legacy_json(file) ==
    IF ~file.valid THEN Unparsable
    ELSE IF file.requests = <<>> THEN
        [ok |-> TRUE, title |-> UntitledSession, lastMessageDate |-> 0,
         initialLocation |-> file.initialLocation, isEmpty |-> TRUE]
    ELSE LET text == file.requests[1].text
             title == IF text = None THEN UntitledSession
                      ELSE IF Truncate(strip(text)) = <<>> THEN UntitledSession
                      ELSE Truncate(strip(text))
         IN  [ok |-> TRUE, title |-> title,
              lastMessageDate |-> file.requests[Len(file.requests)].timestamp,
              initialLocation |-> file.initialLocation, isEmpty |-> FALSE]

\* lines 690-697 (and 1357-1362): the index entry of a parsed record
IndexEntry(sid, parsed) ==
    [sessionId |-> sid, title |-> parsed.title, lastMessageDate |-> parsed.lastMessageDate,
     isImported |-> FALSE, initialLocation |-> parsed.initialLocation,
     isEmpty |-> parsed.isEmpty]

\* the keys of an entries dict
EntryIds(entries) == {entries[i].sessionId : i \in 1..Len(entries)}

EntryOf(entries, sid) == entries[CHOOSE i \in 1..Len(entries) : entries[i].sessionId = sid]

NoRow == [row |-> "none", entries |-> <<>>]
BadRow == [row |-> "bad", entries |-> <<>>]
IndexRow(entries) == [row |-> "ok", entries |-> entries]
NoList == [row |-> "none", items |-> <<>>]
BadList == [row |-> "bad", items |-> <<>>]
\* a value that is JSON but no list of objects with a str resource: ["x"],
\* 5, [{"resource": null}]
OddList == [row |-> "odd", items |-> <<>>]
ListRow(items) == [row |-> "ok", items |-> items]

StatusActive == 1
\* lines 563-573: a model cache entry
ModelEntry(resource, label, ts) ==
    [providerType |-> "local", resource |-> resource, label |-> label,
     status |-> StatusActive, created |-> ts]
\* lines 579-583: a state cache entry
StateEntry(resource, ts) == [resource |-> resource, archived |-> FALSE, read |-> ts]

\* lines 317-323: the ids with a .json or a .jsonl file
sessions_on_disk(files) ==
    {sid \in DOMAIN files : files[sid].json.exists \/ files[sid].jsonl.exists}

\* lines 355-365: the ids decoded from the model cache
DecodedIds(items) ==
    {DecodeResource(items[i].resource) : i \in 1..Len(items)} \ {Err}

\* WorkspaceInfo.__init__, lines 317-369. An index value that is not JSON
\* raises inside the try: the cache is then not read either.
WorkspaceInfo(files, store) ==
    LET readable == store.exists /\ store.index.row # "bad"
        entries == IF readable THEN store.index.entries ELSE <<>>
    IN  [ sessions_on_disk |-> sessions_on_disk(files),
          sessions_in_index |-> EntryIds(entries),
          empty_sessions_in_index |->
              {entries[i].sessionId : i \in {j \in 1..Len(entries) : entries[j].isEmpty}},
          sessions_in_agent_cache |->
              IF readable /\ store.model.row = "ok" THEN DecodedIds(store.model.items) ELSE {} ]

\* lines 391-417
missing_from_index(ws) == ws.sessions_on_disk \ ws.sessions_in_index
missing_from_agent_cache(ws) ==
    (ws.sessions_on_disk \ ws.empty_sessions_in_index) \ ws.sessions_in_agent_cache
orphaned_in_index(ws) == ws.sessions_in_index \ ws.sessions_on_disk
needs_repair(ws) ==
    \/ missing_from_index(ws) # {}
    \/ orphaned_in_index(ws) # {}
    \/ missing_from_agent_cache(ws) # {}

\* ------------------------------------------------------------------------
\* _update_agent_sessions_cache, lines 500-598
\* ------------------------------------------------------------------------

\* "vscode-chat-session://" in r
IsChatResource(r) == r.kind \in {"local", "chat"}
IsChatItem(item) == IsChatResource(item.resource)
IsForeignItem(item) == ~IsChatResource(item.resource)

\* lines 522-539: item.get("resource", "") raises on an item that is no
\* object, the for loop on a value that is not iterable, and the "in" test
\* on a resource that is no str; nothing in the function catches it
CacheRaises(list) == list.row = "odd"

\* lines 504-520: a missing or unparsable list is the empty list
ExistingCache(list) == IF list.row = "ok" THEN list.items ELSE <<>>

ChatResources(items) == {items[i].resource : i \in {j \in 1..Len(items) : IsChatItem(items[j])}}

RECURSIVE AddedModelEntriesAll(_, _)
\* a mutant: the isEmpty check of line 555 is missing
AddedModelEntriesAll(entries, existing) ==
    IF entries = <<>> THEN <<>>
    ELSE LET e == Head(entries)
             r == _session_id_to_resource(e.sessionId)
         IN  (IF r \notin existing
              THEN <<ModelEntry(r, e.title, e.lastMessageDate)>> ELSE <<>>)
             \o AddedModelEntriesAll(Tail(entries), existing)

RECURSIVE AddedModelEntries(_, _)
\* lines 552-574: the model entries appended, in the order of the entries
AddedModelEntries(entries, existing) ==
    IF entries = <<>> THEN <<>>
    ELSE LET e == Head(entries)
             r == _session_id_to_resource(e.sessionId)
         IN  (IF ~e.isEmpty /\ r \notin existing
              THEN <<ModelEntry(r, e.title, e.lastMessageDate)>> ELSE <<>>)
             \o AddedModelEntries(Tail(entries), existing)

RECURSIVE AddedStateEntries(_, _)
\* lines 552-584: the state entries appended
AddedStateEntries(entries, existing) ==
    IF entries = <<>> THEN <<>>
    ELSE LET e == Head(entries)
             r == _session_id_to_resource(e.sessionId)
         IN  (IF ~e.isEmpty /\ r \notin existing
              THEN <<StateEntry(r, e.lastMessageDate)>> ELSE <<>>)
             \o AddedStateEntries(Tail(entries), existing)

\* a mutant: only the chat entries are written back
NewModelCacheChatOnly(list, entries) ==
    LET old == ExistingCache(list)
    IN  SelectSeq(old, IsChatItem) \o AddedModelEntries(entries, ChatResources(old))

\* lines 586-588: the two lists written back
NewModelCache(list, entries) ==
    LET old == ExistingCache(list)
    IN  SelectSeq(old, IsForeignItem) \o SelectSeq(old, IsChatItem)
        \o AddedModelEntries(entries, ChatResources(old))

\* a mutant: the state list is written back without new entries
NewStateCacheKept(list, entries) ==
    LET old == ExistingCache(list)
    IN  SelectSeq(old, IsForeignItem) \o SelectSeq(old, IsChatItem)

NewStateCache(list, entries) ==
    LET old == ExistingCache(list)
    IN  SelectSeq(old, IsForeignItem) \o SelectSeq(old, IsChatItem)
        \o AddedStateEntries(entries, ChatResources(old))

\* ------------------------------------------------------------------------
\* repair_workspace, lines 612-708: the entries of the new index
\* ------------------------------------------------------------------------

\* a mutant: the existing entries are kept whatever the flag
StartEntriesKeepAll(store, remove_orphans) ==
    IF store.exists /\ store.index.row = "ok" THEN store.index.entries ELSE <<>>

\* lines 616-630: the starting map
StartEntries(store, remove_orphans) ==
    IF ~remove_orphans /\ store.exists /\ store.index.row = "ok"
    THEN store.index.entries ELSE <<>>

\* lines 646-688: the summary of one id's record; .jsonl is preferred
ParseRecord(rec) ==
    IF rec.jsonl.exists THEN parse_jsonl_session(rec.jsonl.lines)
    ELSE IF rec.json.exists THEN parse_legacy_json(rec.json)
    ELSE Unparsable

RECURSIVE RepairLoopStopAfterFirst(_, _, _)
\* a mutant: the loop ends after the first entry it inserts
RepairLoopStopAfterFirst(ids, entries, files) ==
    IF ids = <<>> THEN entries
    ELSE LET sid == Head(ids)
             parsed == ParseRecord(files[sid])
         IN  IF sid \in EntryIds(entries) THEN RepairLoopStopAfterFirst(Tail(ids), entries, files)
             ELSE IF ~parsed.ok THEN RepairLoopStopAfterFirst(Tail(ids), entries, files)
             ELSE Append(entries, IndexEntry(sid, parsed))

RECURSIVE RepairLoopReparse(_, _, _)
\* a mutant: the check of line 634 is missing, so that an id of the
\* starting map is parsed again and its entry assigned again
RepairLoopReparse(ids, entries, files) ==
    IF ids = <<>> THEN entries
    ELSE LET sid == Head(ids)
             parsed == ParseRecord(files[sid])
         IN  IF ~parsed.ok THEN RepairLoopReparse(Tail(ids), entries, files)
             ELSE IF sid \in EntryIds(entries)
             THEN RepairLoopReparse(Tail(ids),
                     [i \in 1..Len(entries) |->
                         IF entries[i].sessionId = sid THEN IndexEntry(sid, parsed)
                         ELSE entries[i]], files)
             ELSE RepairLoopReparse(Tail(ids), Append(entries, IndexEntry(sid, parsed)), files)

RECURSIVE RepairLoopAbort(_, _, _)
\* a mutant: a record that does not parse ends the loop
RepairLoopAbort(ids, entries, files) ==
    IF ids = <<>> THEN entries
    ELSE LET sid == Head(ids)
             parsed == ParseRecord(files[sid])
         IN  IF sid \in EntryIds(entries) THEN RepairLoopAbort(Tail(ids), entries, files)
             ELSE IF ~parsed.ok THEN entries
             ELSE RepairLoopAbort(Tail(ids), Append(entries, IndexEntry(sid, parsed)), files)

RECURSIVE RepairLoop(_, _, _)
\* lines 632-708: for session_id in sorted(workspace.sessions_on_disk)
RepairLoop(ids, entries, files) ==
    IF ids = <<>> THEN entries
    ELSE LET sid == Head(ids)
             parsed == ParseRecord(files[sid])
         IN  IF sid \in EntryIds(entries) THEN RepairLoop(Tail(ids), entries, files)
             ELSE IF ~parsed.ok THEN RepairLoop(Tail(ids), entries, files)
             ELSE RepairLoop(Tail(ids), Append(entries, IndexEntry(sid, parsed)), files)

\* a mutant: the loop misses the first id
BuildEntriesSkipFirst(ws, files, store, remove_orphans) ==
    LET ids == sorted(ws.sessions_on_disk)
    IN  RepairLoop(IF ids = <<>> THEN ids ELSE Tail(ids),
                   StartEntries(store, remove_orphans), files)

BuildEntries(ws, files, store, remove_orphans) ==
    RepairLoop(sorted(ws.sessions_on_disk), StartEntries(store, remove_orphans), files)

\* ------------------------------------------------------------------------
\* _find_duplicate_workspaces and _merge_one_workspace, lines 1214-1379
\* ------------------------------------------------------------------------

\* lines 1243-1259: the folder_info of one storage folder
FolderInfo(w, uri, files, store) ==
    [w |-> w, uri |-> uri,
     mtime |-> IF store.exists THEN store.mtime ELSE 0,
     session_ids |-> sessions_on_disk(files)]

RECURSIVE InsertByMtime(_, _)
\* the place of f in a list already sorted by mtime, newest first: behind
\* every folder that is as new (list.sort is stable)
InsertByMtime(folders, f) ==
    IF folders = <<>> THEN <<f>>
    ELSE IF Head(folders).mtime >= f.mtime
         THEN <<Head(folders)>> \o InsertByMtime(Tail(folders), f)
         ELSE <<f>> \o folders

RECURSIVE SortByMtime(_)
\* lines 1266 and 1418: folders.sort(key=mtime, reverse=True)
SortByMtime(folders) ==
    IF folders = <<>> THEN <<>>
    ELSE InsertByMtime(SortByMtime(SubSeq(folders, 1, Len(folders) - 1)),
                       folders[Len(folders)])

\* lines 1228-1261: the folders of each URI that more than one folder has,
\* in the order of the directory listing
_find_duplicate_workspaces(uris, dsk, stores) ==
    LET infos == [w \in 1..Len(uris) |-> FolderInfo(w, uris[w], dsk[w], stores[w])]
        group(uri) == LET same(f) == f.uri = uri IN SelectSeq(infos, same)
    IN  [uri \in {u \in Range(uris) : Len(group(u)) > 1} |-> group(uri)]

\* lines 1420-1423: the ids of the old folders that the active one lacks
MissingOfPlan(folders) ==
    UNION {folders[i].session_ids : i \in 2..Len(folders)} \ folders[1].session_ids

RECURSIVE PlanList(_, _)
\* lines 1417-1427: merge_plans, by URI, each with its sorted folders
PlanList(uris, duplicates) ==
    IF uris = <<>> THEN <<>>
    ELSE LET folders == SortByMtime(duplicates[Head(uris)])
         IN  (IF MissingOfPlan(folders) # {} THEN <<folders>> ELSE <<>>)
             \o PlanList(Tail(uris), duplicates)

\* a mutant: the oldest folder is taken for the active one
ActiveOfOldest(folders) == folders[Len(folders)].w

\* lines 1267 and 1278: active = folders[0], the folder that is written to
ActiveOf(folders) == folders[1].w

Extensions == <<"json", "jsonl">>
FileOf(rec, ext) == IF ext = "json" THEN rec.json ELSE rec.jsonl
PutFile(rec, ext, file) ==
    IF ext = "json" THEN [rec EXCEPT !.json = file] ELSE [rec EXCEPT !.jsonl = file]

RECURSIVE CopiesOfId(_, _, _, _)
\* lines 1286-1291: the files of one id of one old folder that are queued
CopiesOfId(exts, old, sid, dsk) ==
    IF exts = <<>> THEN <<>>
    ELSE (IF FileOf(dsk[old.w][sid], Head(exts)).exists
          THEN <<[src |-> old.w, sid |-> sid, ext |-> Head(exts)]>> ELSE <<>>)
         \o CopiesOfId(Tail(exts), old, sid, dsk)

RECURSIVE CopiesOfFolder(_, _, _, _)
\* lines 1285-1291: for sid in sorted(missing_ids); the file is queued
\* when no file is at its destination now
CopiesOfFolder(ids, old, active, dsk) ==
    IF ids = <<>> THEN <<>>
    ELSE LET free(c) == ~FileOf(dsk[active.w][c.sid], c.ext).exists
         IN  SelectSeq(CopiesOfId(Extensions, old, Head(ids), dsk), free)
             \o CopiesOfFolder(Tail(ids), old, active, dsk)

RECURSIVE FilesToCopy(_, _, _)
\* lines 1281-1291: files_to_copy, old folder after old folder
FilesToCopy(old_folders, active, dsk) ==
    IF old_folders = <<>> THEN <<>>
    ELSE LET old == Head(old_folders)
             missing_ids == old.session_ids \ active.session_ids
         IN  CopiesOfFolder(sorted(missing_ids), old, active, dsk)
             \o FilesToCopy(Tail(old_folders), active, dsk)

\* lines 1324-1354: the summary of a merged id; the .json file is looked
\* at first, the .jsonl file only when there is no .json file
MergeParseRecord(rec) ==
    IF rec.json.exists THEN parse_legacy_json(rec.json)
    ELSE IF rec.jsonl.exists THEN parse_jsonl_session(rec.jsonl.lines)
    ELSE Unparsable

RECURSIVE MergeLoopNoCheck(_, _, _, _)
\* a mutant: the check of line 1323 is missing, and the entry of an id that
\* the index holds is made again
MergeLoopNoCheck(ids, entries, added, files) ==
    IF ids = <<>> THEN [entries |-> entries, added |-> added]
    ELSE LET sid == Head(ids)
             parsed == MergeParseRecord(files[sid])
             keep(e) == e.sessionId # sid
         IN  IF ~parsed.ok THEN MergeLoopNoCheck(Tail(ids), entries, added, files)
             ELSE MergeLoopNoCheck(Tail(ids),
                      Append(SelectSeq(entries, keep), IndexEntry(sid, parsed)),
                      Append(added, IndexEntry(sid, parsed)), files)

RECURSIVE MergeLoop(_, _, _, _)
\* lines 1322-1364: for sid in sorted(merged_session_ids)
MergeLoop(ids, entries, added, files) ==
    IF ids = <<>> THEN [entries |-> entries, added |-> added]
    ELSE LET sid == Head(ids)
             parsed == MergeParseRecord(files[sid])
         IN  IF sid \in EntryIds(entries) THEN MergeLoop(Tail(ids), entries, added, files)
             ELSE IF ~parsed.ok THEN MergeLoop(Tail(ids), entries, added, files)
             ELSE MergeLoop(Tail(ids), Append(entries, IndexEntry(sid, parsed)),
                            Append(added, IndexEntry(sid, parsed)), files)

\* ------------------------------------------------------------------------
\* orphan recovery, lines 443-455 and 1048-1098
\* ------------------------------------------------------------------------

\* lines 406-409
has_sessions(ws) == ws.sessions_on_disk # {}

\* lines 443-455: the first workspace of the list, other than the current
\* one, that has the id on disk; 0 stands for None
find_orphan_in_other_workspaces(session_id, current, all_workspaces, infos) ==
    LET has(w) == w # current /\ session_id \in infos[w].sessions_on_disk
        found == SelectSeq(all_workspaces, has)
    IN  IF found = <<>> THEN 0 ELSE Head(found)

\* lines 1024 and 1048-1055 (877-882 for one workspace): recoverable_orphans,
\* session_id -> source workspace; the dict is keyed by the id alone, and a
\* later workspace of needs_repair assigns the key again
RecoverableOrphans(needs, all_workspaces, infos) ==
    LET orphaned(i) == orphaned_in_index(infos[needs[i]])
        find(sid, i) == find_orphan_in_other_workspaces(sid, needs[i], all_workspaces, infos)
        finds(sid) == {i \in 1..Len(needs) : sid \in orphaned(i) /\ find(sid, i) # 0}
        last(sid) == CHOOSE i \in finds(sid) : \A j \in finds(sid) : j <= i
        ids == {sid \in UNION {orphaned(i) : i \in 1..Len(needs)} : finds(sid) # {}}
    IN  [sid \in ids |-> find(sid, last(sid))]

\* a mutant: the copies are made in a dry run too
ShouldRecoverAlways(recover_orphans, recoverable, dry_run) ==
    recover_orphans /\ DOMAIN recoverable # {}

\* line 1086 (901 for one workspace)
ShouldRecover(recover_orphans, recoverable, dry_run) ==
    recover_orphans /\ DOMAIN recoverable # {} /\ ~dry_run

\* a mutant: every workspace that has the id orphaned is a target
RecoveryMapEvery(needs, infos, recoverable) ==
    LET targets(sid) ==
            {needs[i] : i \in {j \in 1..Len(needs) :
                                  sid \in orphaned_in_index(infos[needs[j]])}}
    IN  UNION { { [target |-> w, sid |-> sid, src |-> recoverable[sid]] : w \in targets(sid) } :
                  sid \in DOMAIN recoverable }

\* lines 1091-1098: recovery_map; an id goes to the first workspace of
\* needs_repair that has it orphaned, and the search ends there
RecoveryMap(needs, infos, recoverable) ==
    LET holders(sid) == {i \in 1..Len(needs) : sid \in orphaned_in_index(infos[needs[i]])}
        first(sid) == CHOOSE i \in holders(sid) : \A j \in holders(sid) : i <= j
    IN  { [target |-> needs[first(sid)], sid |-> sid, src |-> recoverable[sid]] :
            sid \in DOMAIN recoverable }

\* ------------------------------------------------------------------------
\* State
\* ------------------------------------------------------------------------

VARIABLES
    \* SpecCodec: one id through the encoder and the scanner's decoder
    cPc, cId, cRes, cOut,
    \* SpecExtract: the log being read, the lines read so far, the state of
    \* the loop and the summary returned
    xPc, xLog, xPos, xSt, xOut,
    \* the workspaces: the folder URI of workspace.json, the record files,
    \* state.vscdb and its backup artifacts
    workspace_json, disk, db, backups,
    \* a run of repair_workspace: its position, the workspace, the flags,
    \* the WorkspaceInfo it was given, the entries dict, the open sqlite
    \* transaction and the result dict
    rPc, rW, rArgs, rWs, rEntries, rTx, rResult,
    \* history: the store when the run started, whether this is the second
    \* run in a row, and the flags and resulting index of the run before
    rPre, rAgain, rPrev,
    \* a run of merge_workspaces_mode: its position, the dry-run flag,
    \* merge_plans, the sorted folder list of the plan at hand, files_to_copy, merged_session_ids,
    \* the entries and added_entries dicts, the open transaction, the
    \* result dict
    mPc, mDry, mPlans, mFolders, mQueue, mMerged, mEntries, mAdded, mTx, mResult,
    \* history: the record files and stores when the merge started, and
    \* the destination files written so far
    mPreDisk, mPreDb, mWrites,
    \* a run of repair_all_workspaces or of repair_single_workspace over
    \* several folders: its position, the flags, the WorkspaceInfo objects,
    \* the needs_repair list, the copies of recovery_map still to make,
    \* the position of the repair loop, the result of each repair and the
    \* counters
    aPc, aArgs, aInfo, aNeeds, aCopies, aIdx, aResults, aCount,
    \* history: the record files and stores when the run started
    aPreDisk, aPreDb

codecVars == <<cPc, cId, cRes, cOut>>
extractVars == <<xPc, xLog, xPos, xSt, xOut>>
wsVars == <<workspace_json, disk, db, backups>>
runVars == <<rPc, rW, rArgs, rWs, rEntries, rTx, rResult>>
histVars == <<rPre, rAgain, rPrev>>
mergeVars ==
    <<mPc, mDry, mPlans, mFolders, mQueue, mMerged, mEntries, mAdded, mTx, mResult,
      mPreDisk, mPreDb, mWrites>>
allVars == <<aPc, aArgs, aInfo, aNeeds, aCopies, aIdx, aResults, aCount, aPreDisk, aPreDb>>
vars == <<codecVars, extractVars, wsVars, runVars, histVars, mergeVars, allVars>>

\* ------------------------------------------------------------------------
\* SpecCodec
\* ------------------------------------------------------------------------

\* 'a', '-', '>', '?': a letter, the separator of a UUID, and two bytes
\* whose encodings use the last two symbols of the alphabet
IdBytes == {97, 45, 62, 63}
MaxIdLen == 3
CodecIds == SeqsUpTo(IdBytes, MaxIdLen) \ {<<>>}

CodecIdle == cPc = "off" /\ cId = <<>> /\ cRes = Resource("foreign", <<>>) /\ cOut = Err

ExtractIdle ==
    xPc = "off" /\ xLog = <<>> /\ xPos = 0 /\ xSt = ExtractStart /\ xOut = Unparsable

EmptyStore ==
    [exists |-> FALSE, mtime |-> 0, index |-> NoRow, model |-> NoList, state |-> NoList]
NoTx == [open |-> FALSE, index |-> NoRow, model |-> NoList, state |-> NoList]
NoWs == WorkspaceInfo(<<>>, EmptyStore)
NoArgs == [remove_orphans |-> FALSE, dry_run |-> FALSE]
\* lines 603-610
NewResult ==
    [success |-> FALSE, sessions_restored |-> 0, sessions_removed |-> 0,
     agent_cache_added |-> 0, error |-> FALSE, restored_sessions |-> <<>>]
NoPrev == [valid |-> FALSE, args |-> NoArgs, index |-> NoRow]

RunIdle ==
    /\ rPc = "idle" /\ rW = 0 /\ rArgs = NoArgs /\ rWs = NoWs /\ rEntries = <<>>
    /\ rTx = NoTx /\ rResult = NewResult
    /\ rPre = EmptyStore /\ rAgain = FALSE /\ rPrev = NoPrev

\* lines 1270-1275
NewMergeResult ==
    [files_copied |-> 0, sessions_added_to_index |-> 0,
     sessions_added_to_agent_cache |-> 0, errors |-> 0]

MergeIdle ==
    /\ mPc = "idle" /\ mDry = FALSE /\ mPlans = <<>> /\ mFolders = <<>> /\ mQueue = <<>> /\ mMerged = {}
    /\ mEntries = <<>> /\ mAdded = <<>> /\ mTx = NoTx /\ mResult = NewMergeResult
    /\ mPreDisk = <<>> /\ mPreDb = <<>> /\ mWrites = <<>>

NoAllArgs ==
    [mode |-> "all", dry_run |-> FALSE, remove_orphans |-> FALSE, recover_orphans |-> FALSE,
     auto_yes |-> FALSE]
\* lines 1085 and 1151-1152, and the copies that raised
NewAllCount == [total_recovered |-> 0, success_count |-> 0, fail_count |-> 0, copy_errors |-> 0]

AllIdle ==
    /\ aPc = "off" /\ aArgs = NoAllArgs /\ aInfo = <<>> /\ aNeeds = <<>> /\ aCopies = {}
    /\ aIdx = 0 /\ aResults = <<>> /\ aCount = NewAllCount
    /\ aPreDisk = <<>> /\ aPreDb = <<>>

WorkspacesIdle ==
    /\ workspace_json = <<>> /\ disk = <<>> /\ db = <<>> /\ backups = <<>>
    /\ RunIdle /\ MergeIdle /\ AllIdle

CodecInit ==
    /\ cPc = "input"
    /\ cId \in CodecIds
    /\ cRes = Resource("foreign", <<>>)
    /\ cOut = Err
    /\ ExtractIdle
    /\ WorkspacesIdle

Encode ==
    /\ cPc = "input"
    /\ cRes' = _session_id_to_resource(cId)
    /\ cPc' = "encoded"
    /\ UNCHANGED <<cId, cOut, extractVars, wsVars, runVars, histVars, mergeVars,
                   allVars>>

Decode ==
    /\ cPc = "encoded"
    /\ cOut' = DecodeResource(cRes)
    /\ cPc' = "decoded"
    /\ UNCHANGED <<cId, cRes, extractVars, wsVars, runVars, histVars, mergeVars,
                   allVars>>

CodecNext == Encode \/ Decode

SpecCodec == CodecInit /\ [][CodecNext]_vars

TextFix == <<70, 105, 120>>
TextRel == <<82, 101, 108>>
TextBlank == <<Space, Space>>
TextPadded == <<Space, 70, Space>>
TextLong == [i \in 1..(TitleMax + 1) |-> 120]

Snapshot(creationDate, requests) ==
    [object |-> TRUE, creationDate |-> creationDate, initialLocation |-> "panel",
     requests |-> requests]

LineChoices ==
    { [type |-> "blank"], [type |-> "garbage"], [type |-> "nonobject"],
      [type |-> "kind0", v |-> NotObject],
      [type |-> "kind0", v |-> Snapshot(3, <<>>)],
      [type |-> "kind0", v |-> Snapshot(3, <<Request(TextFix, 5)>>)],
      [type |-> "kind0", v |-> Snapshot(0, <<Request(TextBlank, 0)>>)],
      [type |-> "kind1", k |-> "customTitle", value |-> TextRel],
      [type |-> "kind1", k |-> "customTitle", value |-> TextBlank],
      [type |-> "kind1", k |-> "customTitle", value |-> <<>>],
      [type |-> "kind1", k |-> "customTitle", value |-> NotStr],
      [type |-> "kind2", k |-> "requests", huge |-> FALSE,
       v |-> <<Request(TextPadded, 7), Request(TextRel, 4)>>],
      [type |-> "kind2", k |-> "requests", huge |-> FALSE, v |-> <<Request(TextLong, 9)>>],
      [type |-> "kind2", k |-> "requests", huge |-> TRUE,
       v |-> <<Request(<<>>, 2), Request(TextPadded, 8)>>],
      [type |-> "kind2", k |-> "other", huge |-> FALSE, v |-> <<Request(None, 6)>>],
      [type |-> "kind2spaced", k |-> "requests", v |-> <<Request(TextFix, 9)>>],
      [type |-> "kind2broken", items |-> <<Request(TextFix, 6)>>] }

MaxLines == 3

ExtractInit ==
    /\ xPc = "reading"
    /\ xLog \in SeqsUpTo(LineChoices, MaxLines)
    /\ xPos = 0
    /\ xSt = ExtractStart
    /\ xOut = Unparsable
    /\ CodecIdle
    /\ WorkspacesIdle

\* one iteration of `for line in f`
ReadLine ==
    /\ xPc = "reading"
    /\ xPos < Len(xLog)
    /\ xPos' = xPos + 1
    /\ xSt' = ExtractLine(xSt, xLog[xPos + 1])
    /\ UNCHANGED <<xPc, xLog, xOut, codecVars, wsVars, runVars, histVars, mergeVars,
                   allVars>>

\* the end of the file: the title is resolved and the summary returned
ReturnSummary ==
    /\ xPc = "reading"
    /\ xPos = Len(xLog)
    /\ xOut' = ExtractFinish(xSt)
    /\ xPc' = "returned"
    /\ UNCHANGED <<xLog, xPos, xSt, codecVars, wsVars, runVars, histVars, mergeVars,
                   allVars>>

ExtractNext == ReadLine \/ ReturnSummary

SpecExtract == ExtractInit /\ [][ExtractNext]_vars

\* the lines that are a ScalarSet of ["customTitle"] to a non-empty string
CustomTitleSets == {i \in 1..Len(xLog) :
    /\ xLog[i].type = "kind1"
    /\ xLog[i].k = "customTitle"
    /\ xLog[i].value # NotStr
    /\ xLog[i].value # <<>>}

LastCustomTitle ==
    xLog[CHOOSE i \in CustomTitleSets : \A j \in CustomTitleSets : j <= i].value

\* C9 as stated: with a customTitle set to a non-empty string in the log,
\* the title is the value of the last such record; otherwise it is the
\* derived first-request text, otherwise "Untitled Session".
TitlePrecedence ==
    (xPc = "returned" /\ xOut.ok) =>
        IF CustomTitleSets # {} THEN xOut.title = LastCustomTitle
        ELSE IF Truthy(xSt.first_request_text)
             THEN xOut.title = Truncate(xSt.first_request_text)
             ELSE xOut.title = UntitledSession

\* C9 amended: the last customTitle value is the title when it is not
\* whitespace-only; with no customTitle set to a non-empty string the title
\* is the derived first-request text (cut to 100 characters) when that is
\* not blank, and "Untitled Session" otherwise.
TitlePrecedenceNonBlank ==
    (xPc = "returned" /\ xOut.ok) =>
        IF CustomTitleSets # {}
        THEN (~isspace(LastCustomTitle) => xOut.title = LastCustomTitle)
        ELSE IF Truthy(xSt.first_request_text) /\ ~isspace(xSt.first_request_text)
             THEN xOut.title = Truncate(xSt.first_request_text)
             ELSE xOut.title = UntitledSession

\* a log whose customTitle comes before the line the first-request text is
\* derived from, and whose title is the customTitle
TitlePrecedenceWitness ==
    /\ xPc = "returned"
    /\ xOut.ok
    /\ Len(xLog) = 2
    /\ 1 \in CustomTitleSets
    /\ xLog[2].type = "kind2"
    /\ Truthy(xSt.first_request_text)
    /\ xOut.title = xLog[1].value
    /\ xOut.title # xSt.first_request_text

\* ------------------------------------------------------------------------
\* Spec: WorkspaceInfo + repair_workspace on one workspace
\* ------------------------------------------------------------------------

NumIds == 2

\* "aaa", "b", "c??", "dd": "aaa" encodes without padding and inside the
\* common alphabet, as a UUID does; "b" and "dd" need padding; "c??" uses
\* the last symbol of the alphabet
AllIds == << <<97, 97, 97>>, <<98>>, <<99, 63, 63>>, <<100, 100>> >>
IdsUpTo(n) == {AllIds[i] : i \in 1..n}
SessionIds == IdsUpTo(NumIds)

\* record files
LogChat ==
    << [type |-> "kind0", v |-> Snapshot(3, <<>>)],
       [type |-> "kind2", k |-> "requests", huge |-> FALSE, v |-> <<Request(TextFix, 5)>>] >>
LogEmpty == << [type |-> "kind0", v |-> Snapshot(3, <<>>)] >>
LogBad == << [type |-> "nonobject"] >>
JsonChat == JsonFile(<<Request(TextRel, 4)>>)

\* no record, or a .jsonl log: of a chat, of an empty session, unparsable
BasicRecords ==
    { NoRecord,
      [json |-> NoJson, jsonl |-> JsonlFile(LogChat)],
      [json |-> NoJson, jsonl |-> JsonlFile(LogEmpty)],
      [json |-> NoJson, jsonl |-> JsonlFile(LogBad)] }

\* the same with the legacy format, alone or next to a log
RecordChoices ==
    BasicRecords \cup
    { [json |-> JsonChat, jsonl |-> NoJsonl],
      [json |-> BadJsonFile, jsonl |-> NoJsonl],
      [json |-> JsonChat, jsonl |-> JsonlFile(LogChat)] }

\* index entries as an earlier version of the record left them
TextOld == <<79, 108, 100>>
StaleEntry(sid) ==
    [sessionId |-> sid, title |-> TextOld, lastMessageDate |-> 1, isImported |-> FALSE,
     initialLocation |-> "panel", isEmpty |-> FALSE]
EmptyEntry(sid) ==
    [sessionId |-> sid, title |-> UntitledSession, lastMessageDate |-> 0,
     isImported |-> FALSE, initialLocation |-> "panel", isEmpty |-> TRUE]
IndexChoices == {"absent", "stale", "empty"}
CacheChoices == {"none", "both"}

\* an entry of another producer sharing the store
ForeignModel ==
    [providerType |-> "codex", resource |-> Resource("foreign", <<1>>), label |-> TextOld,
     status |-> StatusActive, created |-> 2]
ForeignState == [resource |-> Resource("foreign", <<1>>), archived |-> TRUE, read |-> 2]

RECURSIVE Reverse(_)
Reverse(s) == IF s = <<>> THEN <<>> ELSE Append(Reverse(Tail(s)), Head(s))

\* a store whose index holds the ids of idx (in descending order, as no
\* run of the tool leaves them) and whose cache lists hold the ids of cch
\* followed, with foreign, by another producer's entry
MakeStore(idx, cch, foreign, kind) ==
    LET indexed == Reverse(sorted({sid \in DOMAIN idx : idx[sid] # "absent"}))
        cached == Reverse(sorted({sid \in DOMAIN cch : cch[sid] = "both"}))
        E(sid) == IF idx[sid] = "stale" THEN StaleEntry(sid) ELSE EmptyEntry(sid)
        M(sid) == ModelEntry(_session_id_to_resource(sid), TextOld, 1)
        S(sid) == StateEntry(_session_id_to_resource(sid), 1)
    IN  IF kind = "missing" THEN EmptyStore
        ELSE [ exists |-> TRUE, mtime |-> 1,
               index |-> IF kind = "norow" THEN NoRow
                         ELSE IF kind = "badindex" THEN BadRow
                         ELSE IndexRow([i \in 1..Len(indexed) |-> E(indexed[i])]),
               model |-> ListRow([i \in 1..Len(cached) |-> M(cached[i])]
                                \o (IF foreign THEN <<ForeignModel>> ELSE <<>>)),
               state |-> ListRow([i \in 1..Len(cached) |-> S(cached[i])]
                                \o (IF foreign THEN <<ForeignState>> ELSE <<>>)) ]

\* every combination of log, index entry and cache entries, in a store
\* that another producer shares
GeneralStates ==
    { [files |-> f, store |-> MakeStore(idx, cch, TRUE, "ok")] :
        f \in [SessionIds -> BasicRecords],
        idx \in [SessionIds -> IndexChoices],
        cch \in [SessionIds -> CacheChoices] }

\* no state.vscdb, no index key, an index value that is not JSON
DamagedKinds == {"missing", "norow", "badindex"}
DamagedStates ==
    { [files |-> f, store |-> MakeStore([sid \in SessionIds |-> "absent"], cch, TRUE, kind)] :
        f \in [SessionIds -> BasicRecords],
        cch \in [SessionIds -> CacheChoices],
        kind \in DamagedKinds }

\* every combination of record formats, in a store of the tool alone
FormatStates ==
    { [files |-> f, store |-> MakeStore(idx, [sid \in SessionIds |-> "none"], FALSE, "ok")] :
        f \in [SessionIds -> RecordChoices],
        idx \in [SessionIds -> {"absent", "stale"}] }

\* the index {A} with disk {A, B, C}, and the index {A, B} with disk {A}
ScenarioIds == {AllIds[1], AllIds[2], AllIds[3]}
ChatRecord == [json |-> NoJson, jsonl |-> JsonlFile(LogChat)]
ScenarioStates ==
    { [files |-> [sid \in ScenarioIds |-> ChatRecord],
       store |-> MakeStore([sid \in ScenarioIds |-> IF sid = AllIds[1] THEN "stale" ELSE "absent"],
                           [sid \in ScenarioIds |-> "none"], FALSE, "ok")],
      [files |-> [sid \in ScenarioIds |-> IF sid = AllIds[1] THEN ChatRecord ELSE NoRecord],
       store |-> MakeStore([sid \in ScenarioIds |-> IF sid = AllIds[3] THEN "absent" ELSE "stale"],
                           [sid \in ScenarioIds |-> "none"], FALSE, "ok")] }

\* a store that other producers share: their entries stand before, between
\* and behind the entry of AllIds[1], one of them twice, and one is a chat
\* session of another authority; or the cache keys are missing or not
\* JSON; or one of the two lists holds something other than entries
RemoteModel ==
    [providerType |-> "remote", resource |-> Resource("chat", <<2>>), label |-> TextOld,
     status |-> StatusActive, created |-> 2]
RemoteState == [resource |-> Resource("chat", <<2>>), archived |-> FALSE, read |-> 2]
SharedModel ==
    << ForeignModel, ModelEntry(_session_id_to_resource(AllIds[1]), TextOld, 1),
       RemoteModel, ForeignModel >>
SharedState ==
    << ForeignState, StateEntry(_session_id_to_resource(AllIds[1]), 1),
       RemoteState, ForeignState >>
SharedStates ==
    { [files |-> f,
       store |-> [exists |-> TRUE, mtime |-> 1, index |-> IndexRow(<<>>),
                  model |-> lists[1], state |-> lists[2]]] :
        f \in [SessionIds -> BasicRecords],
        lists \in { <<ListRow(SharedModel), ListRow(SharedState)>>,
                    <<NoList, NoList>>, <<BadList, BadList>>,
                    <<OddList, ListRow(SharedState)>>, <<ListRow(SharedModel), OddList>> } }

\* records whose title has to be resolved: a blank customTitle over a
\* first-request text, a text of more than 100 characters, a blank text, a
\* text taken by pattern from a line of 1 MB, none of them in the index
TitleRecords ==
    { [json |-> NoJson,
       jsonl |-> JsonlFile(<< [type |-> "kind0", v |-> Snapshot(3, <<>>)],
                              [type |-> "kind1", k |-> "customTitle", value |-> TextBlank],
                              [type |-> "kind2", k |-> "requests", huge |-> FALSE,
                               v |-> <<Request(TextFix, 5)>>] >>)],
      [json |-> NoJson,
       jsonl |-> JsonlFile(<< [type |-> "kind2", k |-> "requests", huge |-> FALSE,
                               v |-> <<Request(TextLong, 9)>>] >>)],
      [json |-> NoJson,
       jsonl |-> JsonlFile(<< [type |-> "kind0",
                               v |-> Snapshot(3, <<Request(TextBlank, 0)>>)] >>)],
      [json |-> NoJson,
       jsonl |-> JsonlFile(<< [type |-> "kind2", k |-> "requests", huge |-> TRUE,
                               v |-> <<Request(TextBlank, 2), Request(TextLong, 8)>>] >>)],
      [json |-> JsonFile(<<Request(TextBlank, 4)>>), jsonl |-> NoJsonl],
      [json |-> JsonFile(<<Request(TextLong, 4)>>), jsonl |-> NoJsonl],
      [json |-> JsonFile(<<Request(None, 4)>>), jsonl |-> NoJsonl],
      [json |-> JsonFile(<<Request(TextPadded, 4)>>), jsonl |-> NoJsonl] }
TitleStates ==
    { [files |-> f,
       store |-> MakeStore([sid \in SessionIds |-> "absent"], [sid \in SessionIds |-> "none"],
                           FALSE, "ok")] :
        f \in [SessionIds -> TitleRecords] }

\* a store whose cache entries were written with the standard alphabet and
\* padding ("Yg==" for "b"), which the scanner decodes to their ids
PaddedModel(sid) == ModelEntry(Resource("local", b64encode(sid)), TextOld, 1)
PaddedState(sid) == StateEntry(Resource("local", b64encode(sid)), 1)
PaddedStates ==
    { [files |-> f,
       store |-> [exists |-> TRUE, mtime |-> 1, index |-> IndexRow(<<>>),
                  model |-> ListRow([i \in 1..Len(ids) |-> PaddedModel(ids[i])]),
                  state |-> ListRow([i \in 1..Len(ids) |-> PaddedState(ids[i])])]] :
        f \in [SessionIds -> BasicRecords],
        ids \in {sorted(SessionIds)} }

FolderUri == <<102, 111, 111>>

Init ==
    /\ \E st \in GeneralStates \cup DamagedStates \cup FormatStates \cup ScenarioStates
                  \cup SharedStates \cup TitleStates \cup PaddedStates :
        /\ disk = <<st.files>>
        /\ db = <<st.store>>
    /\ workspace_json = <<FolderUri>>
    /\ backups = << <<>> >>
    /\ RunIdle
    /\ MergeIdle
    /\ AllIdle
    /\ CodecIdle
    /\ ExtractIdle

\* repair_single_workspace line 844 and its call of repair_workspace, line
\* 942: the workspace is scanned and the run starts with its flags
Scan(w, remove_orphans, dry_run) ==
    /\ rPc = "idle"
    /\ rPc' = "scanned"
    /\ rW' = w
    /\ rArgs' = [remove_orphans |-> remove_orphans, dry_run |-> dry_run]
    /\ rWs' = WorkspaceInfo(disk[w], db[w])
    /\ rEntries' = <<>>
    /\ rTx' = NoTx
    /\ rResult' = NewResult
    /\ rPre' = db[w]
    /\ UNCHANGED <<rAgain, rPrev, wsVars, codecVars, extractVars, mergeVars,
                   allVars>>

\* lines 698-705: the entries the loop inserted for ids that the scan
\* reported as missing from the index
RestoredSessions(ws, store, entries, remove_orphans) ==
    LET start == StartEntries(store, remove_orphans)
        added == SubSeq(entries, Len(start) + 1, Len(entries))
        restored(e) == e.sessionId \in missing_from_index(ws)
    IN  SelectSeq(added, restored)

\* repair_single_workspace, lines 858-860: a workspace that does not need
\* repair is reported healthy and repair_workspace is not called
Healthy ==
    /\ rPc = "scanned"
    /\ ~needs_repair(rWs)
    /\ rPc' = "healthy"
    /\ UNCHANGED <<rW, rArgs, rWs, rEntries, rTx, rResult, wsVars, histVars, codecVars,
                   extractVars, mergeVars,
                   allVars>>

\* lines 612-708: the entries are rebuilt in memory
Build ==
    /\ rPc = "scanned"
    /\ needs_repair(rWs)
    /\ LET entries == BuildEntries(rWs, disk[rW], db[rW], rArgs.remove_orphans)
       IN  /\ rEntries' = entries
           /\ rResult' = [rResult EXCEPT !.restored_sessions =
                             RestoredSessions(rWs, db[rW], entries, rArgs.remove_orphans)]
    /\ rPc' = "built"
    /\ UNCHANGED <<rW, rArgs, rWs, rTx, wsVars, histVars, codecVars, extractVars, mergeVars,
                   allVars>>

\* lines 737-745: the counts of a run that reached the end of the try
Counted(result, ws, remove_orphans) ==
    [result EXCEPT
        !.success = TRUE,
        !.sessions_restored = Cardinality(missing_from_index(ws)),
        !.agent_cache_added = Cardinality(missing_from_agent_cache(ws)),
        !.sessions_removed = IF remove_orphans THEN Cardinality(orphaned_in_index(ws)) ELSE 0]

\* line 710 with dry_run: nothing is written
DryRunDone ==
    /\ rPc = "built"
    /\ rArgs.dry_run
    /\ rResult' = Counted(rResult, rWs, rArgs.remove_orphans)
    /\ rPc' = "done"
    /\ UNCHANGED <<rW, rArgs, rWs, rEntries, rTx, wsVars, histVars, codecVars, extractVars,
                   mergeVars,
                   allVars>>

\* a mutant: the run goes on to its writes without the copy of lines 711-713
BackupNothing ==
    /\ rPc = "built"
    /\ ~rArgs.dry_run
    /\ rPc' = "backedup"
    /\ UNCHANGED <<rW, rArgs, rWs, rEntries, rTx, rResult, wsVars, histVars, codecVars,
                   extractVars, mergeVars,
                   allVars>>

\* lines 711-713: shutil.copy2 of state.vscdb; it raises when there is no
\* such file, and the run ends in the except of line 747
Backup ==
    /\ rPc = "built"
    /\ ~rArgs.dry_run
    /\ IF db[rW].exists
       THEN /\ backups' = [backups EXCEPT ![rW] = Append(@, db[rW])]
            /\ rPc' = "backedup"
            /\ UNCHANGED rResult
       ELSE /\ rResult' = [rResult EXCEPT !.error = TRUE]
            /\ rPc' = "failed"
            /\ UNCHANGED backups
    /\ UNCHANGED <<rW, rArgs, rWs, rEntries, rTx, workspace_json, disk, db, histVars,
                   codecVars, extractVars, mergeVars,
                   allVars>>

\* lines 716-728: the index key is replaced inside the transaction
WriteIndex ==
    /\ rPc = "backedup"
    /\ rTx' = [open |-> TRUE, index |-> IndexRow(rEntries),
               model |-> db[rW].model, state |-> db[rW].state]
    /\ rPc' = "indexwritten"
    /\ UNCHANGED <<rW, rArgs, rWs, rEntries, rResult, wsVars, histVars, codecVars,
                   extractVars, mergeVars,
                   allVars>>

\* a mutant: a synchronizer that raised leaves its transaction committed
UpdateAgentSessionsCacheCommitted ==
    /\ rPc = "indexwritten"
    /\ IF CacheRaises(rTx.model) \/ CacheRaises(rTx.state)
       THEN /\ db' = [db EXCEPT ![rW] = [@ EXCEPT !.index = rTx.index, !.mtime = @ + 1]]
            /\ rTx' = NoTx
            /\ rResult' = [rResult EXCEPT !.error = TRUE]
            /\ rPc' = "failed"
       ELSE /\ rTx' = [rTx EXCEPT !.model = ListRow(NewModelCache(rTx.model, rEntries)),
                                  !.state = ListRow(NewStateCache(rTx.state, rEntries))]
            /\ rPc' = "cachewritten"
            /\ UNCHANGED <<rResult, db>>
    /\ UNCHANGED <<rW, rArgs, rWs, rEntries, workspace_json, disk, backups, histVars,
                   codecVars, extractVars, mergeVars,
                   allVars>>

\* line 732: _update_agent_sessions_cache(cursor, entries). When it raises,
\* the except of line 747 ends the run: conn.commit() of line 734 is not
\* reached, the connection is dropped with the frame and sqlite rolls the
\* transaction back
UpdateAgentSessionsCache ==
    /\ rPc = "indexwritten"
    /\ IF CacheRaises(rTx.model) \/ CacheRaises(rTx.state)
       THEN /\ rTx' = NoTx
            /\ rResult' = [rResult EXCEPT !.error = TRUE]
            /\ rPc' = "failed"
       ELSE /\ rTx' = [rTx EXCEPT !.model = ListRow(NewModelCache(rTx.model, rEntries)),
                                  !.state = ListRow(NewStateCache(rTx.state, rEntries))]
            /\ rPc' = "cachewritten"
            /\ UNCHANGED rResult
    /\ UNCHANGED <<rW, rArgs, rWs, rEntries, wsVars, histVars, codecVars,
                   extractVars, mergeVars,
                   allVars>>

\* lines 734-745: commit, and the counts of the result
Commit ==
    /\ rPc = "cachewritten"
    /\ db' = [db EXCEPT ![rW] = [@ EXCEPT !.index = rTx.index, !.model = rTx.model,
                                          !.state = rTx.state, !.mtime = @ + 1]]
    /\ rTx' = NoTx
    /\ rResult' = Counted(rResult, rWs, rArgs.remove_orphans)
    /\ rPc' = "done"
    /\ UNCHANGED <<rW, rArgs, rWs, rEntries, workspace_json, disk, backups, histVars,
                   codecVars, extractVars, mergeVars,
                   allVars>>

\* lines 716-735 as one step: the store that a run writing entries commits
Written(store, entries) ==
    [store EXCEPT !.index = IndexRow(entries),
                  !.model = ListRow(NewModelCache(store.model, entries)),
                  !.state = ListRow(NewStateCache(store.state, entries)),
                  !.mtime = @ + 1]

\* the tool is run again with the same flags on the workspace it has just
\* repaired: scan, lines 844-860, and when the workspace still needs repair
\* rebuild, backup, write and commit, lines 601-750
Rerun ==
    /\ rPc = "done"
    /\ rResult.success
    /\ ~rArgs.dry_run
    /\ ~rAgain
    /\ LET ws == WorkspaceInfo(disk[rW], db[rW])
           entries == BuildEntries(ws, disk[rW], db[rW], rArgs.remove_orphans)
       IN  IF needs_repair(ws)
           THEN /\ rWs' = ws
                /\ rEntries' = entries
                /\ backups' = [backups EXCEPT ![rW] = Append(@, db[rW])]
                /\ db' = [db EXCEPT ![rW] = Written(@, entries)]
                /\ rResult' = Counted(
                      [NewResult EXCEPT !.restored_sessions =
                          RestoredSessions(ws, db[rW], entries, rArgs.remove_orphans)],
                      ws, rArgs.remove_orphans)
                /\ rPre' = db[rW]
           ELSE UNCHANGED <<rWs, rEntries, backups, db, rResult, rPre>>
    /\ rPrev' = [valid |-> TRUE, args |-> rArgs, index |-> db[rW].index]
    /\ rAgain' = TRUE
    /\ UNCHANGED <<rPc, rW, rArgs, rTx, workspace_json, disk, codecVars, extractVars,
                   mergeVars,
                   allVars>>

StartRun == \E remove_orphans \in BOOLEAN, dry_run \in BOOLEAN : Scan(1, remove_orphans, dry_run)

Next ==
    \/ StartRun
    \/ Healthy
    \/ Build
    \/ DryRunDone
    \/ Backup
    \/ WriteIndex
    \/ UpdateAgentSessionsCache
    \/ Commit
    \/ Rerun

Spec == Init /\ [][Next]_vars

\* ------------------------------------------------------------------------
\* Properties of a repair run
\* ------------------------------------------------------------------------

\* a run that wrote the store and returned success
Repaired(remove_orphans) ==
    /\ rPc = "done"
    /\ rResult.success
    /\ ~rArgs.dry_run
    /\ rArgs.remove_orphans = remove_orphans

DiskIds == sessions_on_disk(disk[rW])
ParsableIds == {sid \in DiskIds : ParseRecord(disk[rW][sid]).ok}
PersistedIds == EntryIds(db[rW].index.entries)
\* the entries of the index when the run started
PriorEntries == IF rPre.exists /\ rPre.index.row = "ok" THEN rPre.index.entries ELSE <<>>
PriorIds == EntryIds(PriorEntries)
RestoredIds == EntryIds(rResult.restored_sessions)

\* C1 as stated: after a non-removing run every id on disk is in the
\* persisted index, whatever the records hold.
IndexCoversDisk == Repaired(FALSE) => DiskIds \subseteq PersistedIds

\* C1 amended: after a non-removing run the ids on disk that are missing
\* from the persisted index are exactly those whose record does not parse
\* and that the index did not hold before.
IndexCoversParsableDisk ==
    Repaired(FALSE) => DiskIds \ PersistedIds = (DiskIds \ ParsableIds) \ PriorIds

\* a non-removing run that restored an id and skipped an unparsable one
IndexCoversWitness ==
    /\ Repaired(FALSE)
    /\ RestoredIds # {}
    /\ DiskIds \ ParsableIds # {}
    /\ ParsableIds \subseteq PersistedIds

\* C2 as stated: after a removing run the ids of the persisted index are
\* exactly the ids on disk.
IndexEqualsDisk == Repaired(TRUE) => PersistedIds = DiskIds

\* C2 amended: after a removing run the ids of the persisted index are
\* exactly the ids on disk whose record parses.
IndexEqualsParsableDisk == Repaired(TRUE) => PersistedIds = ParsableIds

\* a removing run that dropped an entry of the index and inserted an id
\* found on disk
IndexEqualsWitness ==
    /\ Repaired(TRUE)
    /\ PriorIds \ PersistedIds # {}
    /\ PersistedIds \ PriorIds # {}
    /\ PersistedIds = ParsableIds

\* C3: a second run with the same removeOrphans flag leaves the index as
\* the first run left it: same ids, same values, same order.
Idempotent ==
    (Repaired(rArgs.remove_orphans) /\ rPrev.valid
        /\ rPrev.args.remove_orphans = rArgs.remove_orphans)
    => db[rW].index = rPrev.index

\* two non-removing runs in a row, both of which wrote the store, over an
\* index of two or more entries, of which the first run inserted one
IdempotentWitness ==
    /\ Repaired(FALSE)
    /\ rPrev.valid
    /\ Len(backups[rW]) = 2
    /\ ~rPrev.args.remove_orphans
    /\ Len(db[rW].index.entries) >= 2
    /\ db[rW].index = rPrev.index
    /\ DiskIds \ PriorIds = {}
    /\ \E sid \in ParsableIds :
          EntryOf(db[rW].index.entries, sid) = IndexEntry(sid, ParseRecord(disk[rW][sid]))

ModelResources(list) == {list.items[i].resource : i \in 1..Len(list.items)}
EmptyResources(entries) ==
    {_session_id_to_resource(entries[i].sessionId) :
        i \in {j \in 1..Len(entries) : entries[j].isEmpty}}

\* C4 as stated: after the synchronizer has run, neither list holds the
\* resource of a session whose index entry has isEmpty = true.
NoEmptyInCache ==
    rPc = "cachewritten" =>
        /\ EmptyResources(rEntries) \cap ModelResources(rTx.model) = {}
        /\ EmptyResources(rEntries) \cap ModelResources(rTx.state) = {}

\* C4 amended: the synchronizer appends no entry for a session whose index
\* entry has isEmpty = true: such a resource is in a list after the run
\* only if it was in that list before.
NoEmptyAddedToCache ==
    rPc = "cachewritten" =>
        /\ EmptyResources(rEntries) \cap ModelResources(rTx.model)
              \subseteq ModelResources(ListRow(ExistingCache(db[rW].model)))
        /\ EmptyResources(rEntries) \cap ModelResources(rTx.state)
              \subseteq ModelResources(ListRow(ExistingCache(db[rW].state)))

\* the synchronizer has run over a new empty session and a new non-empty
\* one: only the latter was appended
NoEmptyAddedWitness ==
    /\ rPc = "cachewritten"
    /\ \E i \in 1..Len(rEntries) :
        /\ rEntries[i].isEmpty
        /\ rEntries[i].sessionId \notin PriorIds
        /\ _session_id_to_resource(rEntries[i].sessionId) \notin ModelResources(rTx.model)
    /\ \E i \in 1..Len(rEntries) :
        /\ ~rEntries[i].isEmpty
        /\ _session_id_to_resource(rEntries[i].sessionId) \in
              ModelResources(rTx.model) \ ModelResources(ListRow(ExistingCache(db[rW].model)))

\* C6 as stated: a non-removing run restores exactly the ids of disk - index
\* and leaves the index with the ids of index + disk.
RestoresMissing ==
    Repaired(FALSE) =>
        /\ RestoredIds = DiskIds \ PriorIds
        /\ PersistedIds = PriorIds \cup DiskIds

\* C6 amended: a non-removing run restores exactly the ids of disk - index
\* whose record parses, and leaves the index with the prior ids and those.
RestoresParsableMissing ==
    Repaired(FALSE) =>
        /\ RestoredIds = ParsableIds \ PriorIds
        /\ PersistedIds = PriorIds \cup (ParsableIds \ PriorIds)

\* disk = {A, B, C}, index = {A}: restored = {B, C}, index = {A, B, C}
RestoresMissingWitness ==
    /\ Repaired(FALSE)
    /\ DiskIds = IdsUpTo(3)
    /\ PriorIds = {AllIds[1]}
    /\ RestoredIds = {AllIds[2], AllIds[3]}
    /\ PersistedIds = IdsUpTo(3)

MaxFolders == 3
MaxCopyErrors == 1

Folders == 1..MaxFolders
OtherUri == <<98, 97, 114>>

X == AllIds[1]
Y == AllIds[2]
MergeIds == {X, Y}

\* what a folder holds for X
MergeRecords ==
    { NoRecord,
      [json |-> NoJson, jsonl |-> JsonlFile(LogChat)],
      [json |-> NoJson, jsonl |-> JsonlFile(LogBad)],
      [json |-> JsonChat, jsonl |-> NoJsonl] }

\* the folders holding Y, the log of an empty session: none, all, the first
YRecord == [json |-> NoJson, jsonl |-> JsonlFile(LogEmpty)]
YHolders == {{}, Folders, {1}}

\* the mtime of the store of folder w: the first folder of the listing is
\* the newest, or the oldest, or all are as new
MtimeOrders == {"newestfirst", "oldestfirst", "same"}
MtimeOf(order, w) ==
    IF order = "newestfirst" THEN MaxFolders + 1 - w
    ELSE IF order = "oldestfirst" THEN w
    ELSE 1

\* the stores of the folders: an index over X and Y whose ids are in the
\* cache lists too, or no index key, or an index value that is not JSON
MergeStoreKinds == {"ok", "norow", "badindex"}
MergeStores ==
    { [w \in Folders |-> [MakeStore(idx, [sid \in MergeIds |->
                                             IF idx[sid] = "stale" THEN "both" ELSE "none"],
                                    TRUE, kind)
                           EXCEPT !.mtime = MtimeOf(order, w)]] :
        idx \in [MergeIds -> {"absent", "stale"}],
        kind \in MergeStoreKinds,
        order \in MtimeOrders }
    \cup { [w \in Folders |-> EmptyStore] }

\* the oldest folder alone holds X, a record whose title has to be resolved
MergeTitleStore(w) ==
    [MakeStore([sid \in MergeIds |-> "absent"], [sid \in MergeIds |-> "none"], FALSE, "ok")
        EXCEPT !.mtime = MtimeOf("newestfirst", w)]

MergeInit ==
    /\ \/ /\ \E fx \in [Folders -> MergeRecords], yh \in YHolders :
                disk = [w \in Folders |->
                          [sid \in MergeIds |->
                              IF sid = X THEN fx[w]
                              ELSE IF w \in yh THEN YRecord ELSE NoRecord]]
          /\ db \in MergeStores
          /\ \E last \in {FolderUri, OtherUri} :
                workspace_json = [w \in Folders |-> IF w = MaxFolders THEN last ELSE FolderUri]
       \/ /\ \E rec \in TitleRecords :
                disk = [w \in Folders |->
                          [sid \in MergeIds |->
                              IF sid = X /\ w = MaxFolders THEN rec ELSE NoRecord]]
          /\ db = [w \in Folders |-> MergeTitleStore(w)]
          /\ workspace_json = [w \in Folders |-> FolderUri]
    /\ backups = [w \in Folders |-> <<>>]
    /\ RunIdle
    /\ MergeIdle
    /\ AllIdle
    /\ CodecIdle
    /\ ExtractIdle

\* merge_workspaces_mode, lines 1407-1465, with --yes: the duplicates are
\* found and the plans made; a dry run ends here
FindDuplicates(dry_run) ==
    /\ mPc = "idle"
    /\ LET duplicates == _find_duplicate_workspaces(workspace_json, disk, db)
           plans == PlanList(sorted(DOMAIN duplicates), duplicates)
       IN  /\ mPlans' = IF dry_run THEN <<>> ELSE plans
           /\ mPc' = IF dry_run \/ plans = <<>> THEN "done" ELSE "planned"
    /\ mDry' = dry_run
    /\ mPreDisk' = disk
    /\ mPreDb' = db
    /\ UNCHANGED <<mFolders, mQueue, mMerged, mEntries, mAdded, mTx, mResult, mWrites,
                   wsVars, runVars, histVars, codecVars, extractVars,
                   allVars>>

\* the end of one call of _merge_one_workspace inside the loop of line 1471
AfterPlan == IF mPlans = <<>> THEN "done" ELSE "planned"

\* lines 1266-1297: the next plan is taken up and its files are collected
CollectFiles ==
    /\ mPc = "planned"
    /\ LET folders == SortByMtime(Head(mPlans))
           files_to_copy == FilesToCopy(Tail(folders), folders[1], disk)
       IN  /\ mFolders' = folders
           /\ mQueue' = files_to_copy
           /\ mMerged' = {files_to_copy[i].sid : i \in 1..Len(files_to_copy)}
           /\ mPlans' = Tail(mPlans)
           /\ mPc' = IF files_to_copy = <<>>
                     THEN (IF Tail(mPlans) = <<>> THEN "done" ELSE "planned")
                     ELSE "copying"
    /\ mResult' = NewMergeResult
    /\ mEntries' = <<>>
    /\ mAdded' = <<>>
    /\ mWrites' = <<>>
    /\ UNCHANGED <<mDry, mTx, mPreDisk, mPreDb, wsVars, runVars, histVars, codecVars,
                   extractVars,
                   allVars>>

\* lines 1300-1305: shutil.copy2 of the next file; a copy that raises is
\* counted and the loop goes on
CopyFile ==
    /\ mPc = "copying"
    /\ mQueue # <<>>
    /\ LET c == Head(mQueue)
           active == ActiveOf(mFolders)
           dst == FileOf(disk[active][c.sid], c.ext)
       IN  \/ /\ disk' = [disk EXCEPT ![active][c.sid] =
                             PutFile(@, c.ext, FileOf(disk[c.src][c.sid], c.ext))]
              /\ mWrites' = Append(mWrites, [sid |-> c.sid, ext |-> c.ext, src |-> c.src,
                                             existed |-> dst.exists])
              /\ mResult' = [mResult EXCEPT !.files_copied = @ + 1]
           \/ /\ mResult.errors < MaxCopyErrors
              /\ mResult' = [mResult EXCEPT !.errors = @ + 1]
              /\ UNCHANGED <<disk, mWrites>>
    /\ mQueue' = Tail(mQueue)
    /\ UNCHANGED <<mPc, mDry, mFolders, mPlans, mMerged, mEntries, mAdded, mTx, mPreDisk,
                   mPreDb, workspace_json, db, backups, runVars, histVars, codecVars,
                   extractVars,
                   allVars>>

\* lines 1308-1311: the store of the active folder is backed up; without a
\* store the call returns
MergeBackup ==
    /\ mPc = "copying"
    /\ mQueue = <<>>
    /\ LET active == ActiveOf(mFolders)
       IN  IF db[active].exists
           THEN /\ backups' = [backups EXCEPT ![active] = Append(@, db[active])]
                /\ mPc' = "backedup"
           ELSE /\ mPc' = AfterPlan
                /\ UNCHANGED backups
    /\ UNCHANGED <<mDry, mFolders, mPlans, mQueue, mMerged, mEntries, mAdded, mTx, mResult,
                   mPreDisk, mPreDb, mWrites, workspace_json, disk, db, runVars, histVars,
                   codecVars, extractVars,
                   allVars>>

\* lines 1313-1370: the index is read, the merged ids are added and the
\* index key is replaced inside the transaction. json.loads of a value
\* that is not JSON raises, and nothing catches it
MergeIndex ==
    /\ mPc = "backedup"
    /\ LET active == ActiveOf(mFolders)
           row == db[active].index
           loop == MergeLoop(sorted(mMerged), row.entries, <<>>, disk[active])
       IN  IF row.row = "bad"
           THEN /\ mPc' = "crashed"
                /\ UNCHANGED <<mEntries, mAdded, mTx, mResult>>
           ELSE /\ mEntries' = loop.entries
                /\ mAdded' = loop.added
                /\ mTx' = [open |-> TRUE, index |-> IndexRow(loop.entries),
                           model |-> db[active].model, state |-> db[active].state]
                /\ mResult' = [mResult EXCEPT !.sessions_added_to_index = Len(loop.added)]
                /\ mPc' = "indexwritten"
    /\ UNCHANGED <<mDry, mFolders, mPlans, mQueue, mMerged, mPreDisk, mPreDb, mWrites,
                   wsVars, runVars, histVars, codecVars, extractVars,
                   allVars>>

\* lines 1373-1374: _update_agent_sessions_cache(cursor, added_entries)
MergeCache ==
    /\ mPc = "indexwritten"
    /\ mTx' = [mTx EXCEPT !.model = ListRow(NewModelCache(mTx.model, mAdded)),
                          !.state = ListRow(NewStateCache(mTx.state, mAdded))]
    /\ mResult' = [mResult EXCEPT !.sessions_added_to_agent_cache = Len(mAdded)]
    /\ mPc' = "cachewritten"
    /\ UNCHANGED <<mDry, mFolders, mPlans, mQueue, mMerged, mEntries, mAdded, mPreDisk,
                   mPreDb, mWrites, wsVars, runVars, histVars, codecVars, extractVars,
                   allVars>>

\* lines 1376-1379: commit and return
MergeCommit ==
    /\ mPc = "cachewritten"
    /\ LET active == ActiveOf(mFolders)
       IN  db' = [db EXCEPT ![active] = [@ EXCEPT !.index = mTx.index, !.model = mTx.model,
                                                   !.state = mTx.state, !.mtime = @ + 1]]
    /\ mTx' = NoTx
    /\ mPc' = AfterPlan
    /\ UNCHANGED <<mDry, mFolders, mPlans, mQueue, mMerged, mEntries, mAdded, mResult,
                   mPreDisk, mPreDb, mWrites, workspace_json, disk, backups, runVars,
                   histVars, codecVars, extractVars,
                   allVars>>

StartMerge == \E dry_run \in BOOLEAN : FindDuplicates(dry_run)

MergeNext ==
    \/ StartMerge
    \/ CollectFiles
    \/ CopyFile
    \/ MergeBackup
    \/ MergeIndex
    \/ MergeCache
    \/ MergeCommit

SpecMerge == MergeInit /\ [][MergeNext]_vars

\* ------------------------------------------------------------------------
\* Properties of a merge
\* ------------------------------------------------------------------------

\* _merge_one_workspace has returned, and no copy of it raised
Merged == mPc = "done" /\ ~mDry /\ mFolders # <<>> /\ mResult.errors = 0

ActiveFolder == mFolders[1].w
StaleFolders == {mFolders[i].w : i \in 2..Len(mFolders)}
StaleIds == UNION {sessions_on_disk(mPreDisk[w]) : w \in StaleFolders}
ActiveIdsBefore == sessions_on_disk(mPreDisk[ActiveFolder])
ActiveIdsAfter == sessions_on_disk(disk[ActiveFolder])
ToMerge == StaleIds \ ActiveIdsBefore
IndexBefore == mPreDb[ActiveFolder].index.entries
IndexAfter == db[ActiveFolder].index.entries
Gained == EntryIds(IndexAfter) \ EntryIds(IndexBefore)

\* the entries of the ids that were on the active folder's disk are as
\* they were
OnDiskEntriesUntouched ==
    \A sid \in ActiveIdsBefore \cap EntryIds(IndexBefore) :
        /\ sid \in EntryIds(IndexAfter)
        /\ EntryOf(IndexAfter, sid) = EntryOf(IndexBefore, sid)

\* C8 as stated: after the merge the active folder's disk holds its ids and
\* those of the stale folders, its index has gained exactly the ids of
\* (stale ids) - (active ids), and the entries of ids already on its disk
\* are untouched.
MergeGainsToMerge ==
    Merged =>
        /\ ActiveIdsAfter = ActiveIdsBefore \cup StaleIds
        /\ Gained = ToMerge
        /\ OnDiskEntriesUntouched

\* C8 amended: after a merge without copy errors the active folder's disk
\* holds its ids and those of the stale folders; if it has a store, its
\* index has gained exactly the ids of (stale ids) - (active ids) that it
\* did not hold and whose copied record parses, behind the entries it held,
\* which are untouched; if it has no store, none is made.
MergeGainsParsable ==
    Merged =>
        /\ ActiveIdsAfter = ActiveIdsBefore \cup StaleIds
        /\ IF mPreDb[ActiveFolder].exists
           THEN /\ Gained = {sid \in ToMerge \ EntryIds(IndexBefore) :
                                MergeParseRecord(disk[ActiveFolder][sid]).ok}
                /\ Len(IndexAfter) >= Len(IndexBefore)
                /\ SubSeq(IndexAfter, 1, Len(IndexBefore)) = IndexBefore
           ELSE db[ActiveFolder] = mPreDb[ActiveFolder]

\* P (older) holds X and Y, Q (newer) holds Y and has it in its index:
\* after the merge Q holds X and Y and its index has gained X alone
MergeGainsWitness ==
    /\ Merged
    /\ Len(mFolders) = 2
    /\ StaleIds = {X, Y}
    /\ ActiveIdsBefore = {Y}
    /\ Y \in EntryIds(IndexBefore)
    /\ ActiveIdsAfter = {X, Y}
    /\ Gained = {X}
    /\ EntryOf(IndexAfter, Y) = EntryOf(IndexBefore, Y)

\* C10: no file of the active folder is written when a file is at that
\* path at the time of the write.
NoOverwrite == \A i \in 1..Len(mWrites) : ~mWrites[i].existed

\* C11: a merge changes no folder but the active one: the record files, the
\* store (index and cache lists) and the backups of every other folder are
\* what they were when the merge started, and no workspace.json changes.
StaleUntouched ==
    mFolders # <<>> =>
        /\ \A w \in DOMAIN disk \ {ActiveFolder} :
              /\ disk[w] = mPreDisk[w]
              /\ db[w] = mPreDb[w]
              /\ backups[w] = <<>>
        /\ DOMAIN disk = DOMAIN mPreDisk
        /\ db[ActiveFolder].exists = mPreDb[ActiveFolder].exists

\* a merge that copied files out of two stale folders that hold records
\* and stores, and that changed the active folder's files, store and backups
StaleUntouchedWitness ==
    /\ Merged
    /\ Len(mFolders) = 3
    /\ \A w \in StaleFolders : sessions_on_disk(disk[w]) # {} /\ db[w].exists
    /\ {mWrites[i].src : i \in 1..Len(mWrites)} = StaleFolders
    /\ disk[ActiveFolder] # mPreDisk[ActiveFolder]
    /\ db[ActiveFolder].index # mPreDb[ActiveFolder].index
    /\ db[ActiveFolder].model # mPreDb[ActiveFolder].model
    /\ backups[ActiveFolder] # <<>>

\* the number of times x stands in the list
Count(list, x) == Cardinality({i \in 1..Len(list) : list[i] = x})
IsLocalItem(item) == item.resource.kind = "local"

\* the entries that are not of the local scheme are the same, as often, in
\* both lists, and those of other producers in the same order
SameForeign(old, new) ==
    /\ \A x \in Range(old) \cup Range(new) :
          ~IsLocalItem(x) => Count(new, x) = Count(old, x)
    /\ SelectSeq(new, IsForeignItem) = SelectSeq(old, IsForeignItem)

\* C12: when the synchronizer has run, every entry of the model list and of
\* the state list whose resource is not of the local scheme stands in the
\* new list exactly as often as in the old one, unchanged, whatever the
\* entries it was given.
ForeignPassThrough ==
    rPc = "cachewritten" =>
        /\ SameForeign(ExistingCache(db[rW].model), rTx.model.items)
        /\ SameForeign(ExistingCache(db[rW].state), rTx.state.items)

\* the synchronizer has appended an entry to lists in which entries of
\* other producers stand before and behind a local one, one of them twice
ForeignPassThroughWitness ==
    /\ rPc = "cachewritten"
    /\ db[rW].model = ListRow(SharedModel)
    /\ db[rW].state = ListRow(SharedState)
    /\ Count(rTx.model.items, ForeignModel) = 2
    /\ Count(rTx.model.items, RemoteModel) = 1
    /\ Len(rTx.model.items) > Len(SharedModel)
    /\ Len(rTx.state.items) > Len(SharedState)

\* ------------------------------------------------------------------------
\* SpecAll: repair_all_workspaces, and repair_single_workspace of the first
\* folder, over a storage of several folders
\* ------------------------------------------------------------------------

\* what a folder holds: the record of X and an index that has it, in step
SourceFolder ==
    [files |-> [sid \in MergeIds |-> IF sid = X THEN ChatRecord ELSE NoRecord],
     store |-> MakeStore([sid \in MergeIds |-> IF sid = X THEN "stale" ELSE "absent"],
                         [sid \in MergeIds |-> IF sid = X THEN "both" ELSE "none"],
                         FALSE, "ok")]
\* both record files of X, and an index without it
SourceBothFolder ==
    [files |-> [sid \in MergeIds |->
                   IF sid = X THEN [json |-> JsonChat, jsonl |-> JsonlFile(LogChat)]
                   ELSE NoRecord],
     store |-> MakeStore([sid \in MergeIds |-> "absent"], [sid \in MergeIds |-> "none"],
                         FALSE, "ok")]
\* the record of Y, and an index with X and Y: X is orphaned
OrphanFolder ==
    [files |-> [sid \in MergeIds |-> IF sid = Y THEN ChatRecord ELSE NoRecord],
     store |-> MakeStore([sid \in MergeIds |-> "stale"], [sid \in MergeIds |-> "both"],
                         FALSE, "ok")]
\* the record of Y and no state.vscdb
NoStoreFolder ==
    [files |-> [sid \in MergeIds |-> IF sid = Y THEN ChatRecord ELSE NoRecord],
     store |-> EmptyStore]
\* a record of Y that does not parse, and an empty index
UnparsableFolder ==
    [files |-> [sid \in MergeIds |->
                   IF sid = Y THEN [json |-> NoJson, jsonl |-> JsonlFile(LogBad)]
                   ELSE NoRecord],
     store |-> MakeStore([sid \in MergeIds |-> "absent"], [sid \in MergeIds |-> "none"],
                         FALSE, "ok")]
\* no record at all, and an index with X
BareFolder ==
    [files |-> [sid \in MergeIds |-> NoRecord],
     store |-> MakeStore([sid \in MergeIds |-> IF sid = X THEN "stale" ELSE "absent"],
                         [sid \in MergeIds |-> "none"], FALSE, "ok")]

FolderKinds ==
    {SourceFolder, SourceBothFolder, OrphanFolder, NoStoreFolder, UnparsableFolder, BareFolder}

AllInit ==
    /\ \E kind \in [Folders -> FolderKinds] :
          /\ disk = [w \in Folders |-> kind[w].files]
          /\ db = [w \in Folders |-> kind[w].store]
    /\ workspace_json = [w \in Folders |-> Append(FolderUri, w)]
    /\ backups = [w \in Folders |-> <<>>]
    /\ aPc = "idle" /\ aArgs = NoAllArgs /\ aInfo = <<>> /\ aNeeds = <<>> /\ aCopies = {}
    /\ aIdx = 0 /\ aResults = <<>> /\ aCount = NewAllCount
    /\ aPreDisk = <<>> /\ aPreDb = <<>>
    /\ RunIdle
    /\ MergeIdle
    /\ CodecIdle
    /\ ExtractIdle

\* repair_all_workspaces, lines 994-1083, and repair_single_workspace, lines
\* 844-899: the folders are scanned, the workspaces that need repair are
\* listed and the copies of the orphan recovery are planned
AllScan(mode, dry_run, remove_orphans, recover_orphans, auto_yes) ==
    /\ aPc = "idle"
    /\ LET infos == [w \in Folders |-> WorkspaceInfo(disk[w], db[w])]
           listed(w) == has_sessions(infos[w])
           workspaces == SelectSeq([w \in Folders |-> w], listed)
           broken(w) == needs_repair(infos[w])
           needs == IF mode = "single" THEN SelectSeq(<<1>>, broken)
                    ELSE SelectSeq(workspaces, broken)
           recoverable_orphans == RecoverableOrphans(needs, workspaces, infos)
       IN  /\ aInfo' = infos
           /\ aNeeds' = needs
           /\ aCopies' = IF ShouldRecover(recover_orphans, recoverable_orphans, dry_run)
                          THEN RecoveryMap(needs, infos, recoverable_orphans) ELSE {}
           /\ aPc' = IF needs = <<>> THEN "healthy" ELSE "recovering"
    /\ aArgs' = [mode |-> mode, dry_run |-> dry_run, remove_orphans |-> remove_orphans,
                 recover_orphans |-> recover_orphans, auto_yes |-> auto_yes]
    /\ aIdx' = 1
    /\ aPreDisk' = disk
    /\ aPreDb' = db
    /\ UNCHANGED <<aResults, aCount, wsVars, runVars, histVars, mergeVars, codecVars,
                   extractVars>>

\* lines 1100-1129 (902-926 for one workspace): the record files of one id
\* are copied from the source workspace, .json and .jsonl, each copy on
\* its own; a copy that raises is reported and the loop goes on; when a
\* file was copied the id joins the sessions_on_disk of the target
RecoverOne ==
    /\ aPc = "recovering"
    /\ \E c \in aCopies :
          LET src == disk[c.src][c.sid]
              there == {ext \in Range(Extensions) : FileOf(src, ext).exists}
          IN  \E failed \in SUBSET there :
                /\ aCount.copy_errors + Cardinality(failed) <= MaxCopyErrors
                /\ LET ok == there \ failed
                       put(rec, ext) == IF ext \in ok THEN FileOf(src, ext) ELSE FileOf(rec, ext)
                   IN  /\ disk' = [disk EXCEPT ![c.target][c.sid] =
                                      [json |-> put(@, "json"), jsonl |-> put(@, "jsonl")]]
                       /\ aInfo' = IF ok = {} THEN aInfo
                                    ELSE [aInfo EXCEPT ![c.target].sessions_on_disk =
                                                           @ \cup {c.sid}]
                       /\ aCount' = [aCount EXCEPT
                                        !.total_recovered = IF ok = {} THEN @ ELSE @ + 1,
                                        !.copy_errors = @ + Cardinality(failed)]
                /\ aCopies' = aCopies \ {c}
    /\ UNCHANGED <<aPc, aArgs, aNeeds, aIdx, aResults, aPreDisk, aPreDb, workspace_json, db,
                   backups, runVars, histVars, mergeVars, codecVars, extractVars>>

\* lines 1139-1147 (929-937): "Proceed with repair?", unless --dry-run or
\* --yes was given; any answer but yes ends the run with exit code 1
Confirm ==
    /\ aPc = "recovering"
    /\ aCopies = {}
    /\ IF aArgs.dry_run \/ aArgs.auto_yes THEN aPc' = "repairing"
       ELSE \E response \in {"yes", "no"} :
               aPc' = IF response = "yes" THEN "repairing" ELSE "declined"
    /\ UNCHANGED <<aArgs, aInfo, aNeeds, aCopies, aIdx, aResults, aCount, aPreDisk, aPreDb,
                   wsVars, runVars, histVars, mergeVars, codecVars, extractVars>>

\* lines 1153-1178 (942): repair_workspace of the next workspace of the
\* list, lines 601-750, with the WorkspaceInfo of the scan; the result is
\* counted and the loop goes on
RepairOne ==
    /\ aPc = "repairing"
    /\ aIdx <= Len(aNeeds)
    /\ LET w == aNeeds[aIdx]
           entries == BuildEntries(aInfo[w], disk[w], db[w], aArgs.remove_orphans)
           success == aArgs.dry_run \/ db[w].exists
       IN  /\ IF ~aArgs.dry_run /\ db[w].exists
              THEN /\ backups' = [backups EXCEPT ![w] = Append(@, db[w])]
                   /\ db' = [db EXCEPT ![w] = Written(@, entries)]
              ELSE UNCHANGED <<backups, db>>
           /\ aResults' = Append(aResults, [w |-> w, success |-> success, entries |-> entries])
           /\ aCount' = [aCount EXCEPT
                            !.success_count = IF success THEN @ + 1 ELSE @,
                            !.fail_count = IF success THEN @ ELSE @ + 1]
    /\ aIdx' = aIdx + 1
    /\ UNCHANGED <<aPc, aArgs, aInfo, aNeeds, aCopies, aPreDisk, aPreDb, workspace_json, disk,
                   runVars, histVars, mergeVars, codecVars, extractVars>>

\* lines 1180-1211: the summary, and the exit code
Summary ==
    /\ aPc = "repairing"
    /\ aIdx > Len(aNeeds)
    /\ aPc' = "done"
    /\ UNCHANGED <<aArgs, aInfo, aNeeds, aCopies, aIdx, aResults, aCount, aPreDisk, aPreDb,
                   wsVars, runVars, histVars, mergeVars, codecVars, extractVars>>

StartAll ==
    \E mode \in {"all", "single"}, dry_run \in BOOLEAN, remove_orphans \in BOOLEAN,
       recover_orphans \in BOOLEAN, auto_yes \in BOOLEAN :
        AllScan(mode, dry_run, remove_orphans, recover_orphans, auto_yes)

AllNext ==
    \/ StartAll
    \/ RecoverOne
    \/ Confirm
    \/ RepairOne
    \/ Summary

SpecAll == AllInit /\ [][AllNext]_vars

\* ------------------------------------------------------------------------
\* SpecRuns: a run of any mode: repair of a workspace, repair of all, merge
\* ------------------------------------------------------------------------

\* main, lines 1497-1560: --merge runs merge_workspaces_mode, here on the
\* storage whose folders share a URI; without a workspace id every
\* workspace is repaired, otherwise the one that is named
RunsInit == Init \/ MergeInit \/ AllInit
RunsNext ==
    \/ aPc = "off" /\ Len(workspace_json) = 1 /\ Next
    \/ aPc = "off" /\ Len(workspace_json) > 1 /\ MergeNext
    \/ aPc # "off" /\ AllNext
SpecRuns == RunsInit /\ [][RunsNext]_vars

Last(list) == list[Len(list)]

\* the backups of folder w end with the store as it was before the run
BackedUp(w, before) == backups[w] # <<>> /\ Last(backups[w]) = before

\* C13: in a repair run and in a merge, once a key of the store is written
\* (inside the transaction or committed) the backups hold a full copy of the
\* store as it was before the run; a cache key is written only in a
\* transaction whose index key is written; and a run whose backup was not
\* made writes nothing to the store.
BackupBeforeWrite ==
    /\ (rPc # "idle" /\ (rTx.open \/ db[rW] # rPre)) => BackedUp(rW, rPre)
    /\ (rPc # "idle" /\ rTx.open
           /\ (rTx.model # db[rW].model \/ rTx.state # db[rW].state))
          => rTx.index = IndexRow(rEntries)
    /\ (mFolders # <<>> /\ (mTx.open \/ db[ActiveFolder] # mPreDb[ActiveFolder]))
          => BackedUp(ActiveFolder, mPreDb[ActiveFolder])
    /\ (mFolders # <<>> /\ mTx.open
           /\ (mTx.model # db[ActiveFolder].model \/ mTx.state # db[ActiveFolder].state))
          => mTx.index = IndexRow(mEntries)

\* a merge whose transaction holds a new index and new cache lists, not yet
\* committed, over a store that is backed up
BackupBeforeWriteWitness ==
    /\ mPc = "cachewritten"
    /\ mTx.index # db[ActiveFolder].index
    /\ mTx.model # db[ActiveFolder].model
    /\ mTx.state # db[ActiveFolder].state
    /\ db[ActiveFolder] = mPreDb[ActiveFolder]
    /\ BackedUp(ActiveFolder, mPreDb[ActiveFolder])

\* the workspaces of the scan, and the orphaned ids that another of them
\* has on disk
ScannedWorkspaces == LET listed(w) == has_sessions(aInfo[w]) IN SelectSeq([w \in Folders |-> w], listed)
Recoverable == DOMAIN RecoverableOrphans(aNeeds, ScannedWorkspaces, aInfo)

NoBackups == \A w \in DOMAIN backups : backups[w] = <<>>

\* C14: with --dry-run nothing is modified in any mode: during and after a
\* dry run of repair (one workspace or all, with or without orphan
\* recovery) or of merge, the record files and the stores of all folders
\* are what they were when the run started, no transaction is open and no
\* backup exists.
DryRunChangesNothing ==
    /\ (rPc # "idle" /\ rArgs.dry_run) => (db[rW] = rPre /\ ~rTx.open /\ NoBackups)
    /\ (mPc # "idle" /\ mDry) =>
          (disk = mPreDisk /\ db = mPreDb /\ ~mTx.open /\ NoBackups)
    /\ (aPc \notin {"off", "idle"} /\ aArgs.dry_run) =>
          (disk = aPreDisk /\ db = aPreDb /\ NoBackups)

\* a dry run of repair_all_workspaces with orphan recovery has ended: an
\* orphaned id could have been recovered, and the entries built for a
\* workspace differ from its index
DryRunChangesNothingWitness ==
    /\ aPc = "done"
    /\ aArgs.dry_run
    /\ aArgs.recover_orphans
    /\ aArgs.mode = "all"
    /\ Recoverable # {}
    /\ \E i \in 1..Len(aResults) :
          /\ aResults[i].success
          /\ db[aResults[i].w].exists
          /\ IndexRow(aResults[i].entries) # db[aResults[i].w].index

NonEmptyResources(entries) ==
    {_session_id_to_resource(entries[i].sessionId) :
        i \in {j \in 1..Len(entries) : ~entries[j].isEmpty}}

\* C15: after a successful repair that was not a dry run, the resource of
\* every id whose entry in the persisted index has isEmpty = false is in
\* the model cache list and in the state cache list.
CacheCoversIndex ==
    (rPc = "done" /\ rResult.success /\ ~rArgs.dry_run) =>
        /\ NonEmptyResources(db[rW].index.entries) \subseteq ModelResources(db[rW].model)
        /\ NonEmptyResources(db[rW].index.entries) \subseteq ModelResources(db[rW].state)

\* a repair has ended over an index that held a non-empty entry without
\* cache entries and to which the run added another one
CacheCoversIndexWitness ==
    /\ rPc = "done" /\ rResult.success /\ ~rArgs.dry_run
    /\ rPre.exists /\ rPre.model.row = "ok" /\ rPre.state.row = "ok"
    /\ \E r \in NonEmptyResources(PriorEntries) :
          /\ r \notin ModelResources(rPre.model) \cup ModelResources(rPre.state)
          /\ r \in ModelResources(db[rW].model) \cap ModelResources(db[rW].state)
    /\ NonEmptyResources(rResult.restored_sessions) # {}

\* the ids of the scan whose record does not parse, and those whose record
\* does
FailedIds == {sid \in rWs.sessions_on_disk : ~ParseRecord(disk[rW][sid]).ok}
ParsedIds == rWs.sessions_on_disk \ FailedIds

\* C16: a record that does not parse never fails the repair: the run fails
\* only when there is no store to back up or a cache value of the store is
\* malformed; the entries built hold every
\* other id of the disk and, of the ids whose record does not parse, only
\* those the index held; the run that has a store ends in success with the
\* backup made and the index and both cache lists of these entries
\* committed. And in repair_all_workspaces a repair that failed does not
\* stop the loop: at the end every workspace that needed repair has been
\* handed to repair_workspace, in order, and each one that has a store is
\* backed up and written.
ParseFailureSkipped ==
    /\ rPc = "failed" =>
          ~rPre.exists \/ CacheRaises(rPre.model) \/ CacheRaises(rPre.state)
    /\ rPc \in {"built", "backedup", "indexwritten", "cachewritten", "done"} =>
          /\ ParsedIds \subseteq EntryIds(rEntries)
          /\ EntryIds(rEntries) \cap FailedIds \subseteq
                EntryIds(StartEntries(rPre, rArgs.remove_orphans))
    /\ (rPc = "done" /\ ~rArgs.dry_run) =>
          /\ rResult.success
          /\ BackedUp(rW, rPre)
          /\ db[rW] = Written(rPre, rEntries)
    /\ aPc = "done" =>
          /\ Len(aResults) = Len(aNeeds)
          /\ aCount.success_count + aCount.fail_count = Len(aNeeds)
          /\ \A i \in 1..Len(aResults) :
                LET w == aResults[i].w
                IN  /\ w = aNeeds[i]
                    /\ (~aArgs.dry_run /\ aPreDb[w].exists) =>
                          /\ aResults[i].success
                          /\ BackedUp(w, aPreDb[w])
                          /\ db[w] = Written(aPreDb[w], aResults[i].entries)

\* repair_all_workspaces has ended: the repair of a workspace failed, and
\* a workspace behind it in the list, one of whose records does not parse,
\* was repaired with success and written
ParseFailureSkippedWitness ==
    /\ aPc = "done"
    /\ ~aArgs.dry_run
    /\ aCount.fail_count > 0
    /\ \E i \in 1..Len(aResults), j \in 1..Len(aResults) :
          /\ i < j
          /\ ~aResults[i].success
          /\ aResults[j].success
          /\ db[aResults[j].w] # aPreDb[aResults[j].w]
          /\ \E sid \in sessions_on_disk(disk[aResults[j].w]) :
                ~ParseRecord(disk[aResults[j].w][sid]).ok

\* a line that is not JSON, or JSON that is no record: no object, or a
\* kind-0 record whose value is no object
Malformed(line) ==
    \/ line.type \in {"garbage", "nonobject", "kind2broken"}
    \/ line.type = "kind0" /\ ~line.v.object
WellFormed(log) == LET good(line) == ~Malformed(line) IN SelectSeq(log, good)

\* C17: the summary of a log is the summary of the same log without its
\* malformed lines.
MalformedSkipped ==
    xPc = "returned" => xOut = parse_jsonl_session(WellFormed(xLog))

RECURSIVE RequestCount(_)
\* the request entries of a log: those its snapshots embed and those an
\* ArraySplice appends under ["requests"]
RequestCount(log) ==
    IF log = <<>> THEN 0
    ELSE LET line == Head(log)
             n == IF line.type = "kind0" /\ line.v.object THEN Len(line.v.requests)
                  ELSE IF line.type \in {"kind2", "kind2spaced"} /\ line.k = "requests"
                       THEN Len(line.v)
                  ELSE 0
         IN  n + RequestCount(Tail(log))

\* C18: for a log without malformed lines, isEmpty is true if and only if
\* the log has no request entry: a snapshot with an initial request or an
\* ArraySplice under ["requests"] makes it false, an ArraySplice under
\* another key path or a ScalarSet does not.
EmptyIffNoRequests ==
    (xPc = "returned" /\ xOut.ok /\ WellFormed(xLog) = xLog) =>
        (xOut.isEmpty <=> RequestCount(xLog) = 0)

\* the first-request text a title is derived from, as the parser holds it
\* (stripped, unless taken by pattern); None when the title has another
\* origin. json_first: the .json file is looked at first (merge)
SourceText(rec, json_first) ==
    LET st == ExtractFold(ExtractStart, rec.jsonl.lines)
        of_jsonl == IF ~Truthy(st.custom_title) /\ Truthy(st.first_request_text)
                       /\ ~isspace(st.first_request_text)
                    THEN st.first_request_text ELSE None
        text == IF rec.json.requests = <<>> THEN None ELSE rec.json.requests[1].text
        of_json == IF text # None /\ strip(text) # <<>> THEN strip(text) ELSE None
    IN  IF json_first
        THEN (IF rec.json.exists THEN of_json ELSE of_jsonl)
        ELSE (IF rec.jsonl.exists THEN of_jsonl ELSE of_json)

Ellipsis == <<Dot, Dot, Dot>>

\* the title is not blank; derived from a text, it is the text when that
\* has at most 100 characters, and otherwise 100 characters: the first 97
\* of the text and the ellipsis
TitleOk(title, text) ==
    /\ title # <<>>
    /\ ~isspace(title)
    /\ text # None =>
          /\ Len(title) <= TitleMax
          /\ Len(text) <= TitleMax => title = text
          /\ Len(text) > TitleMax =>
                /\ Len(title) = TitleMax
                /\ SubSeq(title, 1, TitleKeep) = SubSeq(text, 1, TitleKeep)
                /\ SubSeq(title, TitleKeep + 1, TitleMax) = Ellipsis

\* the entries a repair run inserted
InsertedEntries ==
    SubSeq(rEntries, Len(StartEntries(rPre, rArgs.remove_orphans)) + 1, Len(rEntries))

\* C19: every entry that a repair run or a merge inserts into an index,
\* from a .jsonl or a .json record, has a title that is neither empty nor
\* whitespace-only; a title derived from the first-request text has at
\* most 100 characters and ends in "..." when that text had more.
InsertedTitles ==
    /\ rPc \in {"built", "backedup", "indexwritten", "cachewritten", "done"} =>
          \A i \in 1..Len(InsertedEntries) :
              TitleOk(InsertedEntries[i].title,
                      SourceText(disk[rW][InsertedEntries[i].sessionId], FALSE))
    /\ mPc \in {"indexwritten", "cachewritten", "done"} =>
          \A i \in 1..Len(mAdded) :
              TitleOk(mAdded[i].title,
                      SourceText(disk[ActiveFolder][mAdded[i].sessionId], TRUE))

\* a repair has inserted an entry whose title is the 100 characters cut from
\* a longer text and an entry of a session with requests whose title is
\* the sentinel
InsertedTitlesWitness ==
    /\ rPc = "done" /\ rResult.success /\ ~rArgs.dry_run
    /\ \E i \in 1..Len(InsertedEntries), j \in 1..Len(InsertedEntries) :
          /\ SourceText(disk[rW][InsertedEntries[i].sessionId], FALSE) = TextLong
          /\ Len(InsertedEntries[i].title) = TitleMax
          /\ InsertedEntries[j].title = UntitledSession
          /\ ~InsertedEntries[j].isEmpty
          /\ db[rW].index.entries = InsertedEntries

NonBlank(s) == Truthy(s) /\ ~isspace(s)

\* C20: a whitespace-only candidate is absent at its own level: the title
\* is the customTitle when that is not blank, otherwise the derived
\* first-request text (cut to 100 characters) when that is not blank, and
\* "Untitled Session" only when neither is.
BlankCandidateAbsent ==
    (xPc = "returned" /\ xOut.ok) =>
        xOut.title = IF NonBlank(xSt.custom_title) THEN xSt.custom_title
                     ELSE IF NonBlank(xSt.first_request_text)
                          THEN Truncate(xSt.first_request_text)
                     ELSE UntitledSession

\* the lines that are an ArraySplice under ["requests"]
IsRequestsSplice(line) ==
    line.type \in {"kind2", "kind2spaced"} /\ line.k = "requests"

\* the lines read so far that carry a message timestamp: an ArraySplice
\* with an item, or a snapshot with an initial request, whose timestamp is
\* not 0
TimestampSeen ==
    \E i \in 1..xPos :
        \/ xLog[i].type \in {"kind2", "kind2spaced"} /\ MaxTimestamp(xLog[i].v, 0) > 0
        \/ xLog[i].type = "kind2broken" /\ MaxTimestamp(xLog[i].items, 0) > 0
        \/ xLog[i].type = "kind0" /\ xLog[i].v.object
              /\ MaxTimestamp(xLog[i].v.requests, 0) > 0

\* the creationDate of the last snapshot read, 0 when there is none
CreationDateSeen ==
    LET snaps == {i \in 1..xPos : xLog[i].type = "kind0" /\ xLog[i].v.object}
    IN  IF snaps = {} THEN 0
        ELSE xLog[CHOOSE i \in snaps : \A j \in snaps : j <= i].v.creationDate

\* the value never decreases from one line to the next
LastMessageDateMonotone ==
    [][xSt'.last_message_date >= xSt.last_message_date]_vars

\* C21: while the lines are read in file order, lastMessageDate is at least
\* the largest timestamp among the items of every ArraySplice under
\* ["requests"] read so far, whatever the size of the line; the value
\* returned is creationDate (0 when there is none) when no message
\* timestamp was read.
LastMessageDateTracksSplices ==
    /\ ~xSt.failed =>
          \A i \in 1..xPos :
              IsRequestsSplice(xLog[i]) =>
                  xSt.last_message_date >= MaxTimestamp(xLog[i].v, 0)
    /\ (xPc = "returned" /\ xOut.ok /\ ~TimestampSeen) =>
          xOut.lastMessageDate = CreationDateSeen

\* a record of which both the .json and the .jsonl file exist
BothFormats(rec) == rec.json.exists /\ rec.jsonl.exists

\* C22: an index entry made for an id that has both a .json and a .jsonl
\* file is the entry of its .jsonl file, which parses, in a repair and in a
\* merge.
IncrementalPreferred ==
    /\ rPc \in {"built", "backedup", "indexwritten", "cachewritten", "done"} =>
          \A i \in 1..Len(InsertedEntries) :
              LET sid == InsertedEntries[i].sessionId
                  parsed == parse_jsonl_session(disk[rW][sid].jsonl.lines)
              IN  BothFormats(disk[rW][sid]) =>
                      parsed.ok /\ InsertedEntries[i] = IndexEntry(sid, parsed)
    /\ mPc \in {"indexwritten", "cachewritten", "done"} =>
          \A i \in 1..Len(mAdded) :
              LET sid == mAdded[i].sessionId
                  parsed == parse_jsonl_session(disk[ActiveFolder][sid].jsonl.lines)
              IN  BothFormats(disk[ActiveFolder][sid]) =>
                      parsed.ok /\ mAdded[i] = IndexEntry(sid, parsed)

\* the store with its index value replaced by {"version":1,"entries":{}}
WithEmptyIndex(store) == [store EXCEPT !.index = IndexRow(<<>>)]

\* the store has an index key that is missing or whose value is not JSON
IndexDamaged(store) == store.exists /\ store.index.row \in {"none", "bad"}

\* C23: a missing or unparsable index value is an empty index and no
\* failure: a merge into such a store does not raise, and a repair of such
\* a store succeeds and commits what it commits for the same store with
\* the index {"version":1,"entries":{}}.
MalformedIndexAsEmpty ==
    /\ mPc # "crashed"
    /\ (rPc \in {"done", "failed"} /\ ~rArgs.dry_run /\ ~rAgain /\ IndexDamaged(rPre)) =>
          LET store == WithEmptyIndex(rPre)
              ws == WorkspaceInfo(disk[rW], store)
          IN  /\ rResult.success
              /\ db[rW] = Written(store,
                                  BuildEntries(ws, disk[rW], store, rArgs.remove_orphans))

\* the WorkspaceInfo of folder w at the start of the run
ScannedInfo(w) == WorkspaceInfo(aPreDisk[w], aPreDb[w])

\* the ids orphaned in N at the start of the run that another scanned
\* workspace had on disk
RecoverableIn(N) ==
    {sid \in orphaned_in_index(ScannedInfo(N)) :
        \E M \in Range(ScannedWorkspaces) \ {N} : sid \in sessions_on_disk(aPreDisk[M])}

\* the recovery step of a run with --recover-orphans is over, and none of
\* its copies raised
Recovered ==
    /\ aPc \in {"repairing", "declined", "done"}
    /\ aArgs.recover_orphans
    /\ ~aArgs.dry_run
    /\ aCount.copy_errors = 0

\* C24: after the recovery step every workspace N that needs repair has,
\* for every id orphaned in it that another known workspace M has on disk,
\* a record file of the id and the id in its sessions_on_disk, also when
\* several workspaces have the id orphaned; the record files of M are as
\* they were.
OrphansRecovered ==
    Recovered =>
        /\ \A i \in 1..Len(aNeeds) : \A sid \in RecoverableIn(aNeeds[i]) :
              /\ sid \in sessions_on_disk(disk[aNeeds[i]])
              /\ sid \in aInfo[aNeeds[i]].sessions_on_disk
        /\ \A M \in DOMAIN disk : \A sid \in sessions_on_disk(aPreDisk[M]) :
              disk[M][sid] = aPreDisk[M][sid]

\* the resources a list holds
ResourcesOf(list) == {list.items[i].resource : i \in 1..Len(list.items)}

\* the sessions for which the synchronizer appended an entry, to the model
\* list or to the state list, between the store old and the store new
AppendedResources(old, new) ==
    (ResourcesOf(new.model) \ ResourcesOf(old.model))
        \cup (ResourcesOf(new.state) \ ResourcesOf(old.state))

\* C25: the counts of a run are what the run did: sessions_restored is the
\* number of ids the run inserted into the index and the length of
\* restored_sessions, sessions_removed the number of entries it dropped,
\* and agent_cache_added (sessions_added_to_agent_cache in a merge) the
\* number of sessions for which a cache entry was appended.
CountsMatch ==
    /\ (rPc = "done" /\ rResult.success /\ ~rArgs.dry_run) =>
          /\ rResult.sessions_restored = Cardinality(PersistedIds \ PriorIds)
          /\ rResult.sessions_restored = Len(rResult.restored_sessions)
          /\ rResult.sessions_removed = Cardinality(PriorIds \ PersistedIds)
          /\ rResult.agent_cache_added = Cardinality(AppendedResources(rPre, db[rW]))
    /\ (mPc = "done" /\ ~mDry /\ mFolders # <<>>) =>
          mResult.sessions_added_to_agent_cache =
              Cardinality(AppendedResources(mPreDb[ActiveFolder], db[ActiveFolder]))

\* C26: a repair run appends cache entries only for the index entries it
\* has added: every resource that the model list or the state list gains
\* is that of an id of the new index that the index did not hold before,
\* and none is that of an orphaned id without a record file.
AppendsOnlyForNew ==
    (rPc = "done" /\ rResult.success /\ ~rArgs.dry_run) =>
        AppendedResources(rPre, db[rW]) \subseteq
            {_session_id_to_resource(sid) : sid \in PersistedIds \ PriorIds}

\* the WorkspaceInfo of a fresh scan of the workspace of the run
FreshScan == WorkspaceInfo(disk[rW], db[rW])

\* C27: after a successful repair that wrote the store, with
\* --remove-orphans, of a workspace whose records all parse, a fresh scan
\* finds nothing missing from the index, nothing orphaned and nothing
\* missing from the cache, whatever the session ids are.
RepairConverges ==
    (Repaired(TRUE) /\ ParsableIds = DiskIds) =>
        /\ missing_from_index(FreshScan) = {}
        /\ orphaned_in_index(FreshScan) = {}
        /\ missing_from_agent_cache(FreshScan) = {}

\* C28: a repair run that ends in failure leaves the store as it was: the
\* index and both cache lists persisted are those of the start of the run,
\* and no transaction stays open; and at no moment of a run is the index of
\* the run persisted without the two cache lists of the same run.
FailureLeavesStore ==
    /\ rPc = "failed" =>
          /\ ~rResult.success
          /\ db[rW] = rPre
          /\ ~rTx.open
    /\ rPc # "idle" =>
          \/ db[rW] = rPre
          \/ db[rW] = Written(rPre, rEntries)

\* the synchronizer raised on a malformed cache value after the backup was
\* made and an index that differs from the stored one was written in the
\* transaction; the run failed and the store is as it was
FailureLeavesStoreWitness ==
    /\ rPc = "failed"
    /\ rPre.exists
    /\ CacheRaises(rPre.model)
    /\ ~rArgs.dry_run
    /\ backups[rW] # <<>>
    /\ IndexRow(rEntries) # rPre.index
    /\ rResult.error
    /\ db[rW] = rPre

\* the ids a cache item stands for: the id the scanner decodes from its
\* resource, and the id whose resource the encoder makes it
SessionsOf(item) ==
    ({DecodeResource(item.resource)} \ {Err})
        \cup {sid \in Range(AllIds) : item.resource = _session_id_to_resource(sid)}

\* no session has two entries in the list
OneEntryEach(list) ==
    \A sid \in Range(AllIds) :
        Cardinality({i \in 1..Len(list.items) : sid \in SessionsOf(list.items[i])}) <= 1

\* C29: when no session has two entries in the model list or in the state
\* list before a repair, none has after the synchronization: no entry is
\* appended for a session that the scanner finds in the cache.
OneCacheEntryPerSession ==
    (rPc = "done" /\ rResult.success /\ ~rArgs.dry_run
        /\ OneEntryEach(rPre.model) /\ OneEntryEach(rPre.state)) =>
        /\ OneEntryEach(db[rW].model)
        /\ OneEntryEach(db[rW].state)

\* C30: nothing is changed before the confirmation: when the user declines
\* "Proceed with repair?" (a run without --dry-run and without --yes, with
\* or without orphan recovery), no record file has been copied, no store
\* has been written and no backup exists.
NoMutationBeforeConfirmation ==
    aPc = "declined" => (disk = aPreDisk /\ db = aPreDb /\ NoBackups)
====
